---------------------------- MODULE Spec2Model ----------------------------
(***************************************************************************)
(* Creators Nepal: the counter-maintenance triggers of the database, the   *)
(* client components that write the counted tables, and the auth context   *)
(* that mirrors the auth provider's session.                               *)
(*                                                                         *)
(* Database part: the tables are variables, a trigger function is an       *)
(* operator from the tables before its UPDATE to the table after it, and   *)
(* one action is one SQL statement together with the row triggers it       *)
(* fires (a statement and its triggers are one transaction).               *)
(***************************************************************************)
EXTENDS Integers, Sequences, FiniteSets, TLC

\* ------------------------------------------------------------------ bounds
MaxPosts == 2
MaxSeries == 1
MaxComments == 1
MaxOps == 6
MaxTx == 1
MaxAmount == 2
MaxTok == 3
MaxQueue == 2
MaxLoads == 3
MaxAnswerLen == 3
MaxPolls == 2
MaxErrors == 1
MaxFetches == 2
MaxSubs == 1
MaxLimit == 2
MaxOffset == 1
MaxFeedOps == 4
MaxCalls == 2
MaxRoleOps == 2
MaxSubmits == 2

Users == {"u1", "u2"}
\* SQL NULL in an id column (ids start at 1)
NULL == 0

PostIds == 1..MaxPosts
SeriesIds == 1..MaxSeries
CommentIds == 1..MaxComments

VARIABLES
  creator_profiles,  \* user_id -> [followers_count, posts_count, likes_count, series_count]
  posts,             \* id -> [user_id, series_id, likes_count, comments_count]
  series,            \* id -> [user_id, posts_count]
  follows,           \* set of [follower_id, following_id]
  post_likes,        \* set of [user_id, post_id]
  post_comments,     \* set of [id, post_id]
  nextPostId,        \* ids are generated and never reused
  nextSeriesId,
  nextCommentId,
  clamped,           \* history: some GREATEST(x - 1, 0) met x = 0
  nops,              \* statements executed (counted only where they are bounded)
  supporter_transactions, \* set of [id, supporter_id, creator_id, amount, status]
  nextTxId,
  card,              \* a PostCard's state: likesCount, isLiked, isLiking
  page,              \* a CreatorProfilePage's state: creatorProfile, isFollowing
  provSession,       \* the auth provider's current session
  nextTok,           \* sessions issued so far + 1
  eventQueue,        \* auth state change events emitted and not yet handled
  mountPc,           \* AuthProvider: "init", "subscribed" or "unmounted"
  session,           \* AuthProvider state
  user,
  userProfile,
  creatorProfile,
  loading,
  initialLoadCompleteRef,
  loads,             \* loadUserProfile calls in flight: [id, userId, stage]
  nextLoadId,
  signOutPc,         \* signOut: "idle", or the awaited result "ok" / "error"
  location,          \* the router's location: [pathname, from, replace]
  route,             \* the mounted ProtectedRoute: what it last rendered from
  fs,                \* cleanup script: the paths that exist
  scriptPc,          \* cleanup script: where main() is
  typed,             \* the line typed at the prompt
  item,              \* index in itemsToRemove of the next item
  removedCount,
  skippedCount,
  lastLog,           \* the last report the script printed
  cbPc,              \* AuthCallback: "init", "mounted" or "unmounted"
  status,            \* AuthCallback state: "loading", "success" or "error"
  cbError,           \* AuthCallback state error: which message, or "none"
  hasRedirected,     \* the effect's local flag
  cbSubscribed,      \* the page's onAuthStateChange subscription is active
  cbQueue,           \* events emitted to that subscription, not yet handled
  intervalOn,        \* the 500 ms interval is set
  timeoutOn,         \* the 10 s timeout is pending
  loginTimers,       \* 3 s timers pending, each to navigate('/login')
  polls,             \* checkSession calls awaiting getSession
  pollErrors,        \* getSession errors returned so far
  navHome,           \* navigate('/') calls so far
  navLogin,          \* navigate('/login') calls so far
  singlePost,        \* AppDataProvider state: NULL or the id of the post held
  requestedPostId,   \* the postId of the latest fetchSinglePost call, or NULL
  fetches,           \* fetchSinglePost calls awaiting their query: [id, postId]
  nextFetchId,
  subscriptions,     \* set of [id, creator_id, status]
  nextSubId,
  post_cols,         \* posts columns no trigger reads:
                     \*   id -> [is_published, deleted_at, created_at]
  series_cols,       \* series columns no trigger reads: id -> [deleted_at]
  clock,             \* now()
  lastCall,          \* the last call of an SQL function: arguments and result
  users_role,        \* users.role: user id -> role
  answered,          \* history: the last answer a loadUserProfile query got
  ccp,               \* createCreatorProfile: the call's position and result
  writes,            \* history: the writes createCreatorProfile calls sent
  form,              \* settings page: the account form's state
  submission,        \* onAccountSubmit: the submission's position and data
  authRequests,      \* history: the auth requests submissions sent
  msgTimers          \* setTimeout callbacks pending: which message they clear

dbVars == <<creator_profiles, posts, series, follows, post_likes, post_comments,
            nextPostId, nextSeriesId, nextCommentId, clamped>>

txVars == <<supporter_transactions, nextTxId>>

clientVars == <<card, page>>

authVars == <<provSession, nextTok, eventQueue, mountPc, session, user, userProfile,
              creatorProfile, loading, initialLoadCompleteRef, loads, nextLoadId,
              signOutPc>>

routeVars == <<location, route>>

scriptVars == <<fs, scriptPc, typed, item, removedCount, skippedCount, lastLog>>

cbVars == <<cbPc, status, cbError, hasRedirected, cbSubscribed, cbQueue, intervalOn,
            timeoutOn, loginTimers, polls, pollErrors, navHome, navLogin>>

appDataVars == <<singlePost, requestedPostId, fetches, nextFetchId>>

sqlVars == <<subscriptions, nextSubId, post_cols, series_cols, clock, lastCall>>

creatorVars == <<users_role, answered, ccp, writes>>

settingsVars == <<form, submission, authRequests, msgTimers>>

restVars == <<routeVars, scriptVars, cbVars, appDataVars, sqlVars, creatorVars,
              settingsVars>>

vars == <<dbVars, nops, txVars, clientVars, authVars, restVars>>

\* ------------------------------------------------------------- SQL helpers
GREATEST(a, b) == IF a >= b THEN a ELSE b

\* SET c = c + 1
Increment(c) == c + 1

\* a decrement that forgets the floor
DecrementUnclamped(c) == c - 1

\* SET c = GREATEST(c - 1, 0)
Decrement(c) == GREATEST(c - 1, 0)

Bump(TG_OP, c) == IF TG_OP = "INSERT" THEN Increment(c) ELSE Decrement(c)

Card(S) == Cardinality(S)


\* ---------------------------------------------------------------- triggers
\* the WHERE id = post_id dropped: every post is updated
update_post_likes_count_posts_nowhere(P, TG_OP, post_id) ==
  [p \in DOMAIN P |-> [P[p] EXCEPT !.likes_count = Bump(TG_OP, @)]]

\* update_post_likes_count, first UPDATE: public.posts WHERE id = post_id
update_post_likes_count_posts(P, TG_OP, post_id) ==
  [p \in DOMAIN P |->
     IF p = post_id
     THEN [P[p] EXCEPT !.likes_count = Bump(TG_OP, @)]
     ELSE P[p]]

\* the join condition cp.user_id = p.user_id dropped: every profile is updated
update_post_likes_count_profiles_nojoin(CP, P, TG_OP, post_id) ==
  [c \in DOMAIN CP |->
     IF post_id \in DOMAIN P
     THEN [CP[c] EXCEPT !.likes_count = Bump(TG_OP, @)]
     ELSE CP[c]]

\* update_post_likes_count, second UPDATE: public.creator_profiles cp FROM
\* public.posts p WHERE p.id = post_id AND cp.user_id = p.user_id
update_post_likes_count_profiles(CP, P, TG_OP, post_id) ==
  [c \in DOMAIN CP |->
     IF post_id \in DOMAIN P /\ P[post_id].user_id = c
     THEN [CP[c] EXCEPT !.likes_count = Bump(TG_OP, @)]
     ELSE CP[c]]

\* update_post_comments_count: public.posts WHERE id = post_id
update_post_comments_count(P, TG_OP, post_id) ==
  [p \in DOMAIN P |->
     IF p = post_id
     THEN [P[p] EXCEPT !.comments_count = Bump(TG_OP, @)]
     ELSE P[p]]

\* update_followers_count: public.creator_profiles WHERE user_id = following_id
update_followers_count(CP, TG_OP, following_id) ==
  [c \in DOMAIN CP |->
     IF c = following_id
     THEN [CP[c] EXCEPT !.followers_count = Bump(TG_OP, @)]
     ELSE CP[c]]

\* update_series_posts_count, first UPDATE: public.series WHERE id = series_id
update_series_posts_count_series(S, TG_OP, series_id) ==
  [s \in DOMAIN S |->
     IF s = series_id
     THEN [S[s] EXCEPT !.posts_count = Bump(TG_OP, @)]
     ELSE S[s]]

\* update_series_posts_count, second UPDATE: public.creator_profiles
\* WHERE user_id = the post's user_id
update_series_posts_count_profiles(CP, TG_OP, user_id) ==
  [c \in DOMAIN CP |->
     IF c = user_id
     THEN [CP[c] EXCEPT !.posts_count = Bump(TG_OP, @)]
     ELSE CP[c]]

\* update_creator_series_count: public.creator_profiles WHERE user_id = user_id
update_creator_series_count(CP, TG_OP, user_id) ==
  [c \in DOMAIN CP |->
     IF c = user_id
     THEN [CP[c] EXCEPT !.series_count = Bump(TG_OP, @)]
     ELSE CP[c]]

\* A function without the key k
Without(f, k) == [x \in DOMAIN f \ {k} |-> f[x]]

\* A function with the new key k
With(f, k, v) == [x \in DOMAIN f \cup {k} |-> IF x = k THEN v ELSE f[x]]

\* post_likes_count_trigger FOR EACH ROW over the rows a cascade deletes:
\* the tables [cp, posts] after the trigger ran once per row
RECURSIVE CascadeLikes(_, _)
CascadeLikes(T, rows) ==
  IF rows = {} THEN T
  ELSE LET r == CHOOSE x \in rows : TRUE
           P1 == update_post_likes_count_posts(T.posts, "DELETE", r.post_id)
           C1 == update_post_likes_count_profiles(T.cp, P1, "DELETE", r.post_id)
       IN CascadeLikes([cp |-> C1, posts |-> P1], rows \ {r})

\* post_comments_count_trigger FOR EACH ROW over the rows a cascade deletes
RECURSIVE CascadeComments(_, _)
CascadeComments(P, rows) ==
  IF rows = {} THEN P
  ELSE LET r == CHOOSE x \in rows : TRUE
       IN CascadeComments(update_post_comments_count(P, "DELETE", r.post_id),
                          rows \ {r})

\* --------------------------------------------------------------- statements
ZeroProfile ==
  [followers_count |-> 0, posts_count |-> 0, likes_count |-> 0, series_count |-> 0,
   total_earnings |-> 0, supporters_count |-> 0]

InitDb ==
  /\ creator_profiles = <<>>
  /\ posts = <<>>
  /\ series = <<>>
  /\ follows = {}
  /\ post_likes = {}
  /\ post_comments = {}
  /\ nextPostId = 1
  /\ nextSeriesId = 1
  /\ nextCommentId = 1
  /\ clamped = FALSE

\* INSERT INTO creator_profiles (createCreatorProfile): the counters take
\* their column defaults
CreateCreatorProfile(u) ==
  /\ u \notin DOMAIN creator_profiles
  /\ creator_profiles' = With(creator_profiles, u, ZeroProfile)
  /\ UNCHANGED <<posts, series, follows, post_likes, post_comments,
                 nextPostId, nextSeriesId, nextCommentId, clamped>>

\* INSERT INTO post_likes + post_likes_count_trigger
InsertLike(u, p) ==
  /\ p \in DOMAIN posts
  /\ [user_id |-> u, post_id |-> p] \notin post_likes
  /\ post_likes' = post_likes \cup {[user_id |-> u, post_id |-> p]}
  /\ posts' = update_post_likes_count_posts(posts, "INSERT", p)
  /\ creator_profiles' =
       update_post_likes_count_profiles(creator_profiles, posts', "INSERT", p)
  /\ UNCHANGED <<series, follows, post_comments,
                 nextPostId, nextSeriesId, nextCommentId, clamped>>

\* DELETE FROM post_likes + post_likes_count_trigger
DeleteLike(u, p) ==
  /\ [user_id |-> u, post_id |-> p] \in post_likes
  /\ post_likes' = post_likes \ {[user_id |-> u, post_id |-> p]}
  /\ posts' = update_post_likes_count_posts(posts, "DELETE", p)
  /\ creator_profiles' =
       update_post_likes_count_profiles(creator_profiles, posts', "DELETE", p)
  /\ clamped' = (clamped
       \/ (p \in DOMAIN posts /\ posts[p].likes_count = 0)
       \/ (p \in DOMAIN posts /\ posts[p].user_id \in DOMAIN creator_profiles
           /\ creator_profiles[posts[p].user_id].likes_count = 0))
  /\ UNCHANGED <<series, follows, post_comments,
                 nextPostId, nextSeriesId, nextCommentId>>

\* INSERT INTO post_comments + post_comments_count_trigger
InsertComment(p) ==
  /\ p \in DOMAIN posts
  /\ nextCommentId <= MaxComments
  /\ post_comments' = post_comments \cup {[id |-> nextCommentId, post_id |-> p]}
  /\ nextCommentId' = nextCommentId + 1
  /\ posts' = update_post_comments_count(posts, "INSERT", p)
  /\ UNCHANGED <<creator_profiles, series, follows, post_likes,
                 nextPostId, nextSeriesId, clamped>>

\* DELETE FROM post_comments + post_comments_count_trigger
DeleteComment(r) ==
  /\ r \in post_comments
  /\ post_comments' = post_comments \ {r}
  /\ posts' = update_post_comments_count(posts, "DELETE", r.post_id)
  /\ clamped' = (clamped
       \/ (r.post_id \in DOMAIN posts /\ posts[r.post_id].comments_count = 0))
  /\ UNCHANGED <<creator_profiles, series, follows, post_likes,
                 nextPostId, nextSeriesId, nextCommentId>>

\* INSERT INTO follows (handleFollow) + followers_count_trigger
InsertFollow(f, g) ==
  /\ f # g
  /\ [follower_id |-> f, following_id |-> g] \notin follows
  /\ follows' = follows \cup {[follower_id |-> f, following_id |-> g]}
  /\ creator_profiles' = update_followers_count(creator_profiles, "INSERT", g)
  /\ UNCHANGED <<posts, series, post_likes, post_comments,
                 nextPostId, nextSeriesId, nextCommentId, clamped>>

\* DELETE FROM follows (handleFollow) + followers_count_trigger
DeleteFollow(f, g) ==
  /\ [follower_id |-> f, following_id |-> g] \in follows
  /\ follows' = follows \ {[follower_id |-> f, following_id |-> g]}
  /\ creator_profiles' = update_followers_count(creator_profiles, "DELETE", g)
  /\ clamped' = (clamped
       \/ (g \in DOMAIN creator_profiles /\ creator_profiles[g].followers_count = 0))
  /\ UNCHANGED <<posts, series, post_likes, post_comments,
                 nextPostId, nextSeriesId, nextCommentId>>

\* INSERT INTO posts (PostForm.handleSubmit sends no series_id: NULL)
\* + series_posts_count_trigger
InsertPost(u, s) ==
  /\ nextPostId <= MaxPosts
  /\ s \in DOMAIN series \cup {NULL}
  /\ posts' = With(posts, nextPostId,
                   [user_id |-> u, series_id |-> s,
                    likes_count |-> 0, comments_count |-> 0])
  /\ nextPostId' = nextPostId + 1
  /\ series' = update_series_posts_count_series(series, "INSERT", s)
  /\ creator_profiles' =
       update_series_posts_count_profiles(creator_profiles, "INSERT", u)
  /\ UNCHANGED <<follows, post_likes, post_comments,
                 nextSeriesId, nextCommentId, clamped>>

\* DELETE FROM posts WHERE id = p (post.tsx, content.tsx): the row goes, its
\* post_likes and post_comments rows go with it by cascade, and every row
\* trigger runs after the posts row is gone
DeletePost(p) ==
  /\ p \in DOMAIN posts
  /\ LET old == posts[p]
         gone == Without(posts, p)
         likeRows == {r \in post_likes : r.post_id = p}
         commentRows == {r \in post_comments : r.post_id = p}
         C1 == update_series_posts_count_profiles(creator_profiles, "DELETE",
                                                  old.user_id)
         T == CascadeLikes([cp |-> C1, posts |-> gone], likeRows)
     IN /\ post_likes' = post_likes \ likeRows
        /\ post_comments' = post_comments \ commentRows
        /\ series' = update_series_posts_count_series(series, "DELETE",
                                                      old.series_id)
        /\ posts' = CascadeComments(T.posts, commentRows)
        /\ creator_profiles' = T.cp
        /\ clamped' = (clamped
             \/ (old.series_id \in DOMAIN series
                 /\ series[old.series_id].posts_count = 0)
             \/ (old.user_id \in DOMAIN creator_profiles
                 /\ creator_profiles[old.user_id].posts_count = 0))
  /\ UNCHANGED <<follows, nextPostId, nextSeriesId, nextCommentId>>

\* INSERT INTO series + creator_series_count_trigger
InsertSeries(u) ==
  /\ nextSeriesId <= MaxSeries
  /\ series' = With(series, nextSeriesId, [user_id |-> u, posts_count |-> 0])
  /\ nextSeriesId' = nextSeriesId + 1
  /\ creator_profiles' = update_creator_series_count(creator_profiles, "INSERT", u)
  /\ UNCHANGED <<posts, follows, post_likes, post_comments,
                 nextPostId, nextCommentId, clamped>>

\* DELETE FROM series + creator_series_count_trigger (a series no post is in)
DeleteSeries(s) ==
  /\ s \in DOMAIN series
  /\ \A p \in DOMAIN posts : posts[p].series_id # s
  /\ series' = Without(series, s)
  /\ creator_profiles' =
       update_creator_series_count(creator_profiles, "DELETE", series[s].user_id)
  /\ clamped' = (clamped
       \/ (series[s].user_id \in DOMAIN creator_profiles
           /\ creator_profiles[series[s].user_id].series_count = 0))
  /\ UNCHANGED <<posts, follows, post_likes, post_comments,
                 nextPostId, nextSeriesId, nextCommentId>>

\* ------------------------------------------------------------------ client
NoCard ==
  [mounted |-> FALSE, user |-> "u1", post |-> 1, likesCount |-> 0,
   isLiked |-> FALSE, isLiking |-> FALSE, existingLike |-> FALSE]

NoPage ==
  [mounted |-> FALSE, user |-> "u1", creatorId |-> "u2", hasProfile |-> FALSE,
   creatorProfile |-> ZeroProfile, isFollowing |-> FALSE]

InitClient ==
  /\ supporter_transactions = {}
  /\ nextTxId = 1
  /\ card = NoCard
  /\ page = NoPage

\* PostCard rendered for signed-in user u with a post just fetched:
\* useState(post.likes_count || 0), useState(false), useState(false)
MountCard(u, p) ==
  /\ ~card.mounted
  /\ p \in DOMAIN posts
  /\ card' = [mounted |-> TRUE, user |-> u, post |-> p,
              likesCount |-> posts[p].likes_count,
              isLiked |-> FALSE, isLiking |-> FALSE, existingLike |-> FALSE]
  /\ UNCHANGED <<dbVars, txVars, page>>

\* handleLike up to its first await: setIsLiking(true) and the SELECT of the
\* user's post_likes row
HandleLikeSelect ==
  /\ card.mounted
  /\ ~card.isLiking
  /\ card' = [card EXCEPT
       !.isLiking = TRUE,
       !.existingLike = ([user_id |-> card.user, post_id |-> card.post] \in post_likes)]
  /\ UNCHANGED <<dbVars, txVars, page>>

\* Math.max(0, prev - 1)
MathMax0(n) == IF n > 0 THEN n ELSE 0

\* handleLike after the SELECT: the DELETE or the INSERT, then, when the
\* statement returned no error, setIsLiked and setLikesCount; finally
\* setIsLiking(false)
HandleLikeMutate ==
  /\ card.mounted
  /\ card.isLiking
  /\ UNCHANGED <<txVars, page>>
  /\ \/ \* Unlike: the row is there, the DELETE removes it
        /\ card.existingLike
        /\ DeleteLike(card.user, card.post)
        /\ card' = [card EXCEPT !.isLiked = FALSE,
                                !.likesCount = MathMax0(@ - 1),
                                !.isLiking = FALSE]
     \/ \* Unlike: the row went meanwhile, the DELETE matches nothing, no error
        /\ card.existingLike
        /\ [user_id |-> card.user, post_id |-> card.post] \notin post_likes
        /\ UNCHANGED dbVars
        /\ card' = [card EXCEPT !.isLiked = FALSE,
                                !.likesCount = MathMax0(@ - 1),
                                !.isLiking = FALSE]
     \/ \* Like: the INSERT succeeds
        /\ ~card.existingLike
        /\ InsertLike(card.user, card.post)
        /\ card' = [card EXCEPT !.isLiked = TRUE,
                                !.likesCount = @ + 1,
                                !.isLiking = FALSE]
     \/ \* the statement returned an error: no state but isLiking changes
        /\ UNCHANGED dbVars
        /\ card' = [card EXCEPT !.isLiking = FALSE]

\* fetchCreatorData: the creator_profiles row (when there is one) and whether
\* the signed-in user follows the creator
MountCreatorPage(u, c) ==
  /\ ~page.mounted
  /\ u # c
  /\ page' = [mounted |-> TRUE, user |-> u, creatorId |-> c,
              hasProfile |-> (c \in DOMAIN creator_profiles),
              creatorProfile |-> IF c \in DOMAIN creator_profiles
                                 THEN creator_profiles[c] ELSE ZeroProfile,
              isFollowing |->
                ([follower_id |-> u, following_id |-> c] \in follows)]
  /\ UNCHANGED <<dbVars, txVars, card>>

\* setCreatorProfile({...creatorProfile, followers_count: n}) if (creatorProfile)
SetFollowers(pg, n) ==
  IF pg.hasProfile THEN [pg EXCEPT !.creatorProfile.followers_count = n] ELSE pg

\* handleFollow
HandleFollow ==
  /\ page.mounted
  /\ UNCHANGED <<txVars, card>>
  /\ \/ \* Unfollow: the DELETE removes the row
        /\ page.isFollowing
        /\ DeleteFollow(page.user, page.creatorId)
        /\ page' = [SetFollowers(page,
                      MathMax0(page.creatorProfile.followers_count - 1))
                    EXCEPT !.isFollowing = FALSE]
     \/ \* Unfollow: the row went meanwhile, the DELETE matches nothing
        /\ page.isFollowing
        /\ [follower_id |-> page.user, following_id |-> page.creatorId] \notin follows
        /\ UNCHANGED dbVars
        /\ page' = [SetFollowers(page,
                      MathMax0(page.creatorProfile.followers_count - 1))
                    EXCEPT !.isFollowing = FALSE]
     \/ \* Follow: the INSERT succeeds
        /\ ~page.isFollowing
        /\ InsertFollow(page.user, page.creatorId)
        /\ page' = [SetFollowers(page, page.creatorProfile.followers_count + 1)
                    EXCEPT !.isFollowing = TRUE]
     \/ \* the statement returned an error: thrown, logged, nothing set
        /\ UNCHANGED <<dbVars, page>>

\* handleSupport with supportAmount parsed to amount > 0: the INSERT of a
\* 'pending' supporter_transactions row, then the local totals
HandleSupport(amount) ==
  /\ page.mounted
  /\ nextTxId <= MaxTx
  /\ UNCHANGED <<dbVars, card>>
  /\ \/ \* the INSERT succeeds
        /\ supporter_transactions' = supporter_transactions \cup
             {[id |-> nextTxId, supporter_id |-> page.user,
               creator_id |-> page.creatorId,
               amount |-> amount, status |-> "pending"]}
        /\ nextTxId' = nextTxId + 1
        /\ page' = IF page.hasProfile
                   THEN [page EXCEPT
                           !.creatorProfile.total_earnings = @ + amount,
                           !.creatorProfile.supporters_count = @ + 1]
                   ELSE page
     \/ \* the INSERT returned an error: thrown, alerted, nothing set
        /\ UNCHANGED <<txVars, page>>

\* ------------------------------------------------------------ auth context
NoUser == "none"

NoSession == [user |-> NoUser, tok |-> 0]

NoProfile == [id |-> NoUser, role |-> "none"]

NoCreator == [user_id |-> NoUser]

Roles == {"user", "creator", "admin"}

\* an auth state change event as the provider hands it to the callback
Event(type, s) == [event |-> type, session |-> s]

\* the provider calls the subscribed callbacks; nobody else hears of it
Emit(e) ==
  IF mountPc = "subscribed" THEN eventQueue' = Append(eventQueue, e)
  ELSE UNCHANGED eventQueue

\* the provider restores a persisted session, if any, before the app renders
InitAuth ==
  /\ provSession \in {NoSession} \cup {[user |-> u, tok |-> 1] : u \in Users}
  /\ nextTok = 2
  /\ eventQueue = <<>>
  /\ mountPc = "init"
  /\ session = NoSession
  /\ user = NoUser
  /\ userProfile = NoProfile
  /\ creatorProfile = NoCreator
  /\ loading = TRUE
  /\ initialLoadCompleteRef = FALSE
  /\ loads = {}
  /\ nextLoadId = 1
  /\ signOutPc = "idle"

\* the initialization effect: setLoading(true), the ref reset, and
\* onAuthStateChange, which emits INITIAL_SESSION to the new subscriber
Mount ==
  /\ mountPc = "init"
  /\ mountPc' = "subscribed"
  /\ loading' = TRUE
  /\ initialLoadCompleteRef' = FALSE
  /\ eventQueue' = Append(eventQueue, Event("INITIAL_SESSION", provSession))
  /\ UNCHANGED <<provSession, nextTok, session, user, userProfile, creatorProfile,
                 loads, nextLoadId, signOutPc>>

\* the effect's cleanup: subscription.unsubscribe()
Unmount ==
  /\ mountPc = "subscribed"
  /\ mountPc' = "unmounted"
  /\ eventQueue' = <<>>
  /\ UNCHANGED <<provSession, nextTok, session, user, userProfile, creatorProfile,
                 loading, initialLoadCompleteRef, loads, nextLoadId, signOutPc>>

\* a sign-in completes at the provider (OAuth redirect or password)
ProviderSignIn(u) ==
  /\ mountPc = "subscribed"
  /\ nextTok <= MaxTok
  /\ Len(eventQueue) < MaxQueue
  /\ provSession' = [user |-> u, tok |-> nextTok]
  /\ nextTok' = nextTok + 1
  /\ Emit(Event("SIGNED_IN", provSession'))
  /\ UNCHANGED <<mountPc, session, user, userProfile, creatorProfile, loading,
                 initialLoadCompleteRef, loads, nextLoadId, signOutPc>>

\* autoRefreshToken: the provider replaces the session of the same user
ProviderTokenRefresh ==
  /\ mountPc = "subscribed"
  /\ provSession # NoSession
  /\ nextTok <= MaxTok
  /\ Len(eventQueue) < MaxQueue
  /\ provSession' = [user |-> provSession.user, tok |-> nextTok]
  /\ nextTok' = nextTok + 1
  /\ Emit(Event("TOKEN_REFRESHED", provSession'))
  /\ UNCHANGED <<mountPc, session, user, userProfile, creatorProfile, loading,
                 initialLoadCompleteRef, loads, nextLoadId, signOutPc>>

\* the session ends at the provider without this context's signOut
\* (another tab, handleDeleteAccount, an expired refresh token)
ProviderSignOut ==
  /\ mountPc = "subscribed"
  /\ provSession # NoSession
  /\ Len(eventQueue) < MaxQueue
  /\ provSession' = NoSession
  /\ Emit(Event("SIGNED_OUT", NoSession))
  /\ UNCHANGED <<nextTok, mountPc, session, user, userProfile, creatorProfile,
                 loading, initialLoadCompleteRef, loads, nextLoadId, signOutPc>>

\* setUser(null) whatever the session
SessionUserNull(s) == NoUser

\* session?.user ?? null
SessionUser(s) == IF s = NoSession THEN NoUser ELSE s.user

\* load the profile only for the first event
StartsLoadOnce(s) == SessionUser(s) # NoUser /\ ~initialLoadCompleteRef

\* if (session?.user)
StartsLoad(s) == SessionUser(s) # NoUser

\* loading stays true while a profile is to be loaded
LoadingWhileProfileLoads(s) == SessionUser(s) # NoUser

\* setLoading(false), whatever the event
LoadingAfterEvent(s) == FALSE

\* loadUserProfile(userId) up to its first await: the users query is sent
StartLoad(userId) ==
  /\ nextLoadId <= MaxLoads
  /\ loads' = loads \cup {[id |-> nextLoadId, userId |-> userId, stage |-> "users"]}
  /\ nextLoadId' = nextLoadId + 1

\* the onAuthStateChange callback, for the oldest event not yet handled
OnAuthStateChange ==
  /\ mountPc = "subscribed"
  /\ eventQueue # <<>>
  /\ LET s == Head(eventQueue).session
     IN /\ eventQueue' = Tail(eventQueue)
        /\ session' = s
        /\ user' = SessionUser(s)
        /\ IF StartsLoad(s)
           THEN /\ StartLoad(s.user)
                /\ UNCHANGED <<userProfile, creatorProfile>>
           ELSE /\ userProfile' = NoProfile
                /\ creatorProfile' = NoCreator
                /\ UNCHANGED <<loads, nextLoadId>>
        /\ initialLoadCompleteRef' = TRUE
        /\ loading' = LoadingAfterEvent(s)
  /\ UNCHANGED <<provSession, nextTok, mountPc, signOutPc>>

\* loadUserProfile after the users query: an error or an exception clears
\* both profiles; a row is stored and, for a creator or an admin, the
\* creator_profiles query is sent
LoadUsersReturn(l, result) ==
  /\ mountPc = "subscribed"
  /\ l \in loads
  /\ l.stage = "users"
  /\ IF result \in {"error", "throws"}
     THEN /\ userProfile' = NoProfile
          /\ creatorProfile' = NoCreator
          /\ loads' = loads \ {l}
     ELSE /\ userProfile' = [id |-> l.userId, role |-> result]
          /\ IF result \in {"creator", "admin"}
             THEN /\ loads' = (loads \ {l}) \cup {[l EXCEPT !.stage = "creator"]}
                  /\ UNCHANGED creatorProfile
             ELSE /\ creatorProfile' = NoCreator
                  /\ loads' = loads \ {l}
  /\ UNCHANGED <<provSession, nextTok, eventQueue, mountPc, session, user, loading,
                 initialLoadCompleteRef, nextLoadId, signOutPc>>

\* a creator_profiles error clears userProfile as well
LoadCreatorReturnClearsBoth(l, result) ==
  /\ mountPc = "subscribed"
  /\ l \in loads
  /\ l.stage = "creator"
  /\ loads' = loads \ {l}
  /\ IF result = "row"
     THEN creatorProfile' = [user_id |-> l.userId] /\ UNCHANGED userProfile
     ELSE userProfile' = NoProfile /\ creatorProfile' = NoCreator
  /\ UNCHANGED <<provSession, nextTok, eventQueue, mountPc, session, user, loading,
                 initialLoadCompleteRef, nextLoadId, signOutPc>>

\* loadUserProfile after the creator_profiles query
LoadCreatorReturn(l, result) ==
  /\ mountPc = "subscribed"
  /\ l \in loads
  /\ l.stage = "creator"
  /\ loads' = loads \ {l}
  /\ CASE result = "row" ->
            creatorProfile' = [user_id |-> l.userId] /\ UNCHANGED userProfile
       [] result = "error" ->
            creatorProfile' = NoCreator /\ UNCHANGED userProfile
       [] result = "throws" ->
            userProfile' = NoProfile /\ creatorProfile' = NoCreator
  /\ UNCHANGED <<provSession, nextTok, eventQueue, mountPc, session, user, loading,
                 initialLoadCompleteRef, nextLoadId, signOutPc>>

\* signOut up to its await: supabase.auth.signOut() ends the session and
\* emits SIGNED_OUT, or returns an error and changes nothing
SignOutCall(ok) ==
  /\ mountPc = "subscribed"
  /\ signOutPc = "idle"
  /\ IF ok
     THEN /\ Len(eventQueue) < MaxQueue
          /\ provSession' = NoSession
          /\ Emit(Event("SIGNED_OUT", NoSession))
          /\ signOutPc' = "ok"
     ELSE /\ UNCHANGED <<provSession, eventQueue>>
          /\ signOutPc' = "error"
  /\ UNCHANGED <<nextTok, mountPc, session, user, userProfile, creatorProfile,
                 loading, initialLoadCompleteRef, loads, nextLoadId>>

\* signOut after the await: without an error the four states are cleared
SignOutReturn ==
  /\ mountPc = "subscribed"
  /\ signOutPc # "idle"
  /\ signOutPc' = "idle"
  /\ IF signOutPc = "ok"
     THEN /\ user' = NoUser
          /\ userProfile' = NoProfile
          /\ creatorProfile' = NoCreator
          /\ session' = NoSession
     ELSE UNCHANGED <<user, userProfile, creatorProfile, session>>
  /\ UNCHANGED <<provSession, nextTok, eventQueue, mountPc, loading,
                 initialLoadCompleteRef, loads, nextLoadId>>

\* ----------------------------------------------------------- ProtectedRoute
\* two of the router's routes: dashboard (requireAuth) and login (not)
Paths == {"/dashboard", "/login"}

\* the requireAuth prop the router gives the route of a path
RequireAuth(pathname) == pathname = "/dashboard"

\* a location entered by the user: no state, pushed on the history
Entered(pathname) == [pathname |-> pathname, from |-> "", replace |-> FALSE]

\* the ProtectedRoute of the current location before its first render
NoRender == [rendered |-> FALSE, loading |-> TRUE, user |-> NoUser,
             output |-> "none", effectDue |-> FALSE]

InitRoute ==
  /\ location = Entered("/login")
  /\ route = NoRender

\* children unless auth is required and there is no user
RenderWithoutLoading(ld, u, requireAuth) ==
  IF requireAuth /\ u = NoUser THEN "redirecting" ELSE "children"

\* what the component returns for the loading and user it read
Render(ld, u, requireAuth) ==
  IF ld THEN "loading"
  ELSE IF requireAuth /\ u = NoUser THEN "redirecting"
  ELSE "children"

\* the effect without its wait for loading
EffectNavigationAtOnce(ld, u, loc) ==
  IF RequireAuth(loc.pathname) /\ u = NoUser
  THEN [pathname |-> "/login", from |-> loc.pathname, replace |-> TRUE]
  ELSE loc

\* the location after the effect ran with the loading and user of its render
EffectNavigation(ld, u, loc) ==
  IF ld THEN loc
  ELSE IF RequireAuth(loc.pathname) /\ u = NoUser
  THEN [pathname |-> "/login", from |-> loc.pathname, replace |-> TRUE]
  ELSE IF u # NoUser /\ ~RequireAuth(loc.pathname) /\ loc.pathname = "/login"
  THEN [pathname |-> "/dashboard", from |-> "", replace |-> TRUE]
  ELSE loc

\* the component function runs: first render, or user or loading changed
RouteRender ==
  /\ mountPc # "unmounted"
  /\ ~route.effectDue
  /\ ~route.rendered \/ route.loading # loading \/ route.user # user
  /\ route' = [rendered |-> TRUE, loading |-> loading, user |-> user,
               output |-> Render(loading, user, RequireAuth(location.pathname)),
               effectDue |-> TRUE]
  /\ UNCHANGED location

\* the effect of that render; a navigation mounts the route of the new path
RouteEffect ==
  /\ mountPc # "unmounted"
  /\ route.effectDue
  /\ location' = EffectNavigation(route.loading, route.user, location)
  /\ route' = IF location' # location THEN NoRender
              ELSE [route EXCEPT !.effectDue = FALSE]

\* the user follows a link or enters a path
UserNavigates(pathname) ==
  /\ mountPc # "unmounted"
  /\ ~route.effectDue
  /\ pathname # location.pathname
  /\ location' = Entered(pathname)
  /\ route' = NoRender

\* ------------------------------------------------------------ cleanup script
itemsToRemove == <<"backend", "clients/ts-sdk", "clients/ts-sdk-tests",
                   "Cargo.toml", "Cargo.lock", "docker-compose.yml">>

\* process.cwd() and some other directory
Cwd == "cwd"

OtherDir == "elsewhere"

\* path.join(dir, name)
PathJoin(dir, name) == <<dir, name>>

\* the paths that exist before anything is removed
AllPaths ==
  {PathJoin(Cwd, itemsToRemove[i]) : i \in DOMAIN itemsToRemove}
  \cup {PathJoin(Cwd, "backend/src"), PathJoin(Cwd, "README.md"),
        PathJoin(Cwd, "clients/react-server"), PathJoin(OtherDir, "backend")}

\* stats.isDirectory()
IsDirectory(p) ==
  p[2] \in {"backend", "backend/src", "clients/ts-sdk", "clients/ts-sdk-tests",
            "clients/react-server"}

\* the existing paths inside directory p
Inside(p) == IF p = PathJoin(Cwd, "backend") THEN {PathJoin(Cwd, "backend/src")}
             ELSE {}

\* the characters of the lines that are typed
Alphabet == {"y", "Y", "e", "E", "s", "S", "n", " "}

Answers == UNION {[1..n -> Alphabet] : n \in 0..MaxAnswerLen}

\* String.prototype.toLowerCase, character by character
ToLowerCase(a) ==
  [i \in DOMAIN a |-> CASE a[i] = "Y" -> "y"
                        [] a[i] = "E" -> "e"
                        [] a[i] = "S" -> "s"
                        [] OTHER -> a[i]]

\* any answer that starts with y
ConfirmedLoosely(answer) == Len(answer) > 0 /\ answer[1] = "y"

\* answer === 'yes'
Confirmed(answer) == answer = <<"y", "e", "s">>

InitScript ==
  /\ fs = AllPaths
  /\ scriptPc = "start"
  /\ typed = <<>>
  /\ item = 1
  /\ removedCount = 0
  /\ skippedCount = 0
  /\ lastLog = "none"

\* before the script runs, a listed item may have been removed by hand
PriorRemoval(i) ==
  /\ scriptPc = "start"
  /\ PathJoin(Cwd, itemsToRemove[i]) \in fs
  /\ fs' = fs \ ({PathJoin(Cwd, itemsToRemove[i])}
                 \cup Inside(PathJoin(Cwd, itemsToRemove[i])))
  /\ UNCHANGED <<scriptPc, typed, item, removedCount, skippedCount, lastLog>>

\* main() up to its await: the warning is printed and the question asked
MainPrompt ==
  /\ scriptPc = "start"
  /\ scriptPc' = "prompt"
  /\ lastLog' = "warning"
  /\ UNCHANGED <<fs, typed, item, removedCount, skippedCount>>

\* a line is typed: promptUser resolves with it lower-cased and main()
\* either cancels or starts the cleanup
MainAnswer(line) ==
  /\ scriptPc = "prompt"
  /\ typed' = line
  /\ IF ~Confirmed(ToLowerCase(line))
     THEN /\ lastLog' = "cancelled"
          /\ scriptPc' = "closed"
     ELSE /\ lastLog' = "starting"
          /\ scriptPc' = "removing"
  /\ UNCHANGED <<fs, item, removedCount, skippedCount>>

\* one turn of the loop: removeRecursive(path.join(process.cwd(), item));
\* rmSync or unlinkSync may throw, which ends the process with exit code 1
MainRemove(throws) ==
  /\ scriptPc = "removing"
  /\ item <= Len(itemsToRemove)
  /\ LET itemPath == PathJoin(Cwd, itemsToRemove[item])
     IN IF itemPath \in fs
        THEN IF throws
             THEN /\ scriptPc' = "exited"
                  /\ lastLog' = "error"
                  /\ UNCHANGED <<fs, item, removedCount, skippedCount>>
             ELSE /\ fs' = IF IsDirectory(itemPath)
                           THEN fs \ ({itemPath} \cup Inside(itemPath))
                           ELSE fs \ {itemPath}
                  /\ lastLog' = "removed"
                  /\ removedCount' = removedCount + 1
                  /\ item' = item + 1
                  /\ UNCHANGED <<scriptPc, skippedCount>>
        ELSE /\ ~throws
             /\ lastLog' = "not found"
             /\ skippedCount' = skippedCount + 1
             /\ item' = item + 1
             /\ UNCHANGED <<fs, scriptPc, removedCount>>
  /\ UNCHANGED typed

\* after the loop: the summary and rl.close()
MainComplete ==
  /\ scriptPc = "removing"
  /\ item > Len(itemsToRemove)
  /\ scriptPc' = "closed"
  /\ lastLog' = "complete"
  /\ UNCHANGED <<fs, typed, item, removedCount, skippedCount>>

\* ------------------------------------------------------------ AuthCallback
InitCallback ==
  /\ cbPc = "init"
  /\ status = "loading"
  /\ cbError = "none"
  /\ hasRedirected = FALSE
  /\ cbSubscribed = FALSE
  /\ cbQueue = <<>>
  /\ intervalOn = FALSE
  /\ timeoutOn = FALSE
  /\ loginTimers = 0
  /\ polls = 0
  /\ pollErrors = 0
  /\ navHome = 0
  /\ navLogin = 0

\* the provider calls the page's callback while it is subscribed
EmitToCallback(e) ==
  IF cbSubscribed THEN cbQueue' = Append(cbQueue, e) ELSE UNCHANGED cbQueue

\* the provider finishes processing the OAuth callback in the URL
OAuthSignIn(u) ==
  /\ nextTok <= MaxTok
  /\ Len(cbQueue) < MaxQueue
  /\ provSession' = [user |-> u, tok |-> nextTok]
  /\ nextTok' = nextTok + 1
  /\ EmitToCallback(Event("SIGNED_IN", provSession'))
  /\ UNCHANGED <<cbPc, status, cbError, hasRedirected, cbSubscribed, intervalOn,
                 timeoutOn, loginTimers, polls, pollErrors, navHome, navLogin>>

\* autoRefreshToken while the page is open
OAuthTokenRefresh ==
  /\ provSession # NoSession
  /\ nextTok <= MaxTok
  /\ Len(cbQueue) < MaxQueue
  /\ provSession' = [user |-> provSession.user, tok |-> nextTok]
  /\ nextTok' = nextTok + 1
  /\ EmitToCallback(Event("TOKEN_REFRESHED", provSession'))
  /\ UNCHANGED <<cbPc, status, cbError, hasRedirected, cbSubscribed, intervalOn,
                 timeoutOn, loginTimers, polls, pollErrors, navHome, navLogin>>

\* the session ends at the provider (another tab signs out)
OAuthSignOut ==
  /\ provSession # NoSession
  /\ Len(cbQueue) < MaxQueue
  /\ provSession' = NoSession
  /\ EmitToCallback(Event("SIGNED_OUT", NoSession))
  /\ UNCHANGED <<nextTok, cbPc, status, cbError, hasRedirected, cbSubscribed,
                 intervalOn, timeoutOn, loginTimers, polls, pollErrors, navHome,
                 navLogin>>

\* redirect whatever the flag
MayRedirectAgain(flag) == TRUE

\* if (!hasRedirected)
MayRedirect(flag) == ~flag

\* the timeout acts whatever the flag
TimeoutActsAlways(flag) == TRUE

\* the timeout's if (!hasRedirected)
TimeoutActs(flag) == ~flag

\* hasRedirected = true; setStatus('success'); navigate('/', {replace: true})
RedirectHome ==
  /\ hasRedirected' = TRUE
  /\ status' = "success"
  /\ navHome' = navHome + 1

\* the effect: an error in the URL hash sets the error and a 3 s timer;
\* otherwise it subscribes (the provider emits INITIAL_SESSION), calls
\* checkSession and sets the interval and the timeout
CallbackMount(errorParam) ==
  /\ cbPc = "init"
  /\ cbPc' = "mounted"
  /\ IF errorParam
     THEN /\ cbError' = "oauth"
          /\ status' = "error"
          /\ loginTimers' = loginTimers + 1
          /\ UNCHANGED <<cbSubscribed, cbQueue, intervalOn, timeoutOn, polls>>
     ELSE /\ cbSubscribed' = TRUE
          /\ cbQueue' = <<Event("INITIAL_SESSION", provSession)>>
          /\ polls' = polls + 1
          /\ intervalOn' = TRUE
          /\ timeoutOn' = TRUE
          /\ UNCHANGED <<cbError, status, loginTimers>>
  /\ UNCHANGED <<hasRedirected, pollErrors, navHome, navLogin>>

\* the page's onAuthStateChange callback, for the oldest event not handled
CallbackAuthEvent ==
  /\ cbSubscribed
  /\ cbQueue # <<>>
  /\ cbQueue' = Tail(cbQueue)
  /\ LET e == Head(cbQueue)
     IN IF /\ e.event \in {"SIGNED_IN", "TOKEN_REFRESHED"}
           /\ e.session # NoSession
           /\ MayRedirect(hasRedirected)
        THEN RedirectHome
        ELSE UNCHANGED <<hasRedirected, status, navHome>>
  /\ UNCHANGED <<cbPc, cbError, cbSubscribed, intervalOn, timeoutOn, loginTimers,
                 polls, pollErrors, navLogin>>

\* the interval's callback: if (!hasRedirected) checkSession()
IntervalTick ==
  /\ intervalOn
  /\ ~hasRedirected
  /\ polls < MaxPolls
  /\ polls' = polls + 1
  /\ UNCHANGED <<cbPc, status, cbError, hasRedirected, cbSubscribed, cbQueue,
                 intervalOn, timeoutOn, loginTimers, pollErrors, navHome, navLogin>>

\* checkSession after its await: getSession answered with an error or with
\* the provider's session
CheckSessionReturn(sessionError) ==
  /\ polls > 0
  /\ polls' = polls - 1
  /\ IF sessionError
     THEN /\ pollErrors < MaxErrors
          /\ pollErrors' = pollErrors + 1
          /\ cbError' = "session"
          /\ status' = "error"
          /\ loginTimers' = loginTimers + 1
          /\ UNCHANGED <<hasRedirected, navHome>>
     ELSE /\ IF provSession # NoSession /\ MayRedirect(hasRedirected)
             THEN RedirectHome
             ELSE UNCHANGED <<hasRedirected, status, navHome>>
          /\ UNCHANGED <<pollErrors, cbError, loginTimers>>
  /\ UNCHANGED <<cbPc, cbSubscribed, cbQueue, intervalOn, timeoutOn, navLogin>>

\* the 10 s timeout fires
TimeoutFires ==
  /\ timeoutOn
  /\ timeoutOn' = FALSE
  /\ IF TimeoutActs(hasRedirected)
     THEN /\ cbError' = "timeout"
          /\ status' = "error"
          /\ cbSubscribed' = FALSE
          /\ cbQueue' = <<>>
          /\ intervalOn' = FALSE
          /\ loginTimers' = loginTimers + 1
     ELSE UNCHANGED <<cbError, status, cbSubscribed, cbQueue, intervalOn, loginTimers>>
  /\ UNCHANGED <<cbPc, hasRedirected, polls, pollErrors, navHome, navLogin>>

\* a 3 s timer fires: navigate('/login', {replace: true})
LoginTimerFires ==
  /\ loginTimers > 0
  /\ loginTimers' = loginTimers - 1
  /\ navLogin' = navLogin + 1
  /\ UNCHANGED <<cbPc, status, cbError, hasRedirected, cbSubscribed, cbQueue,
                 intervalOn, timeoutOn, polls, pollErrors, navHome>>

\* the effect's cleanup, when the router leaves the page
CallbackUnmount ==
  /\ cbPc = "mounted"
  /\ cbPc' = "unmounted"
  /\ cbSubscribed' = FALSE
  /\ cbQueue' = <<>>
  /\ intervalOn' = FALSE
  /\ timeoutOn' = FALSE
  /\ UNCHANGED <<status, cbError, hasRedirected, loginTimers, polls, pollErrors,
                 navHome, navLogin>>

\* ---------------------------------------------------------- AppDataProvider
\* no initialSinglePost, nothing requested
InitAppData ==
  /\ singlePost = NULL
  /\ requestedPostId = NULL
  /\ fetches = {}
  /\ nextFetchId = 1

\* fetchSinglePost(postId) up to its await: setSinglePost(null), query sent
FetchSinglePost(postId) ==
  /\ nextFetchId <= MaxFetches
  /\ singlePost' = NULL
  /\ requestedPostId' = postId
  /\ fetches' = fetches \cup {[id |-> nextFetchId, postId |-> postId]}
  /\ nextFetchId' = nextFetchId + 1

\* fetchSinglePost after its await: setSinglePost(data), or nothing on an
\* error (no such row, or the request failed) or an exception
FetchSinglePostReturn(f, failed) ==
  /\ f \in fetches
  /\ fetches' = fetches \ {f}
  /\ IF failed \/ f.postId \notin DOMAIN posts
     THEN UNCHANGED singlePost
     ELSE singlePost' = f.postId
  /\ UNCHANGED <<requestedPostId, nextFetchId>>

\* -------------------------------------------------------------- SQL functions
TxStatuses == {"pending", "completed", "failed", "cancelled", "refunded"}

SubStatuses == {"active", "paused", "cancelled", "expired"}

NoCall == [fn |-> "none"]

InitSql ==
  /\ subscriptions = {}
  /\ nextSubId = 1
  /\ post_cols = <<>>
  /\ series_cols = <<>>
  /\ clock = 1
  /\ lastCall = NoCall

\* a row of the right-hand table of a join, and the all-NULL row a LEFT JOIN
\* supplies when nothing matches
Row(x) == [isNull |-> FALSE, v |-> x]

NullRow == [isNull |-> TRUE]

LeftJoin(matching) ==
  IF matching = {} THEN {NullRow} ELSE {Row(x) : x \in matching}

\* SUM(value[r]) over the rows r
RECURSIVE SUM(_, _)
SUM(rows, value) ==
  IF rows = {} THEN 0
  ELSE LET r == CHOOSE x \in rows : TRUE
       IN value[r] + SUM(rows \ {r}, value)

\* COUNT(DISTINCT x) over the non-NULL values
CountDistinct(values) == Cardinality(values)

\* INSERT INTO supporter_transactions, with the status the payment has
InsertTransaction(supporter, creator, amount, st) ==
  /\ nextTxId <= MaxTx
  /\ supporter_transactions' = supporter_transactions \cup
       {[id |-> nextTxId, supporter_id |-> supporter, creator_id |-> creator,
         amount |-> amount, status |-> st]}
  /\ nextTxId' = nextTxId + 1

\* INSERT INTO subscriptions
InsertSubscription(creator, st) ==
  /\ nextSubId <= MaxSubs
  /\ subscriptions' = subscriptions \cup
       {[id |-> nextSubId, creator_id |-> creator, status |-> st]}
  /\ nextSubId' = nextSubId + 1

\* INSERT INTO posts with its other columns; created_at defaults to now(),
\* and time may have passed since the last statement
PublishPost(u, s, is_published, now) ==
  /\ InsertPost(u, s)
  /\ clock' = now
  /\ post_cols' = With(post_cols, nextPostId,
                       [is_published |-> is_published, deleted_at |-> NULL,
                        created_at |-> now])

\* INSERT INTO series with its other columns
CreateSeries(u) ==
  /\ InsertSeries(u)
  /\ series_cols' = With(series_cols, nextSeriesId, [deleted_at |-> NULL])

\* get_creator_stats(creator_uuid): users LEFT JOIN creator_profiles,
\* supporter_transactions, subscriptions, posts and series, grouped by user
get_creator_stats(creator_uuid) ==
  LET st == LeftJoin({x \in supporter_transactions : x.creator_id = creator_uuid})
      sub == LeftJoin({x \in subscriptions : x.creator_id = creator_uuid})
      p == LeftJoin({x \in DOMAIN posts :
                       /\ posts[x].user_id = creator_uuid
                       /\ post_cols[x].deleted_at = NULL})
      s == LeftJoin({x \in DOMAIN series :
                       /\ series[x].user_id = creator_uuid
                       /\ series_cols[x].deleted_at = NULL})
      rows == st \X sub \X p \X s
      earned == [r \in rows |->
                   IF ~r[1].isNull /\ r[1].v.status = "completed"
                   THEN r[1].v.amount ELSE 0]
      comments == [r \in rows |->
                     IF r[3].isNull THEN 0 ELSE posts[r[3].v].comments_count]
  IN [total_earnings |-> SUM(rows, earned),
      total_supporters |->
        CountDistinct({r[1].v.supporter_id : r \in {x \in rows : ~x[1].isNull}}),
      active_subscriptions |->
        CountDistinct({r[2].v.id :
          r \in {x \in rows : ~x[2].isNull /\ x[2].v.status = "active"}}),
      total_posts |-> CountDistinct({r[3].v : r \in {x \in rows : ~x[3].isNull}}),
      total_series |-> CountDistinct({r[4].v : r \in {x \in rows : ~x[4].isNull}}),
      total_comments |-> SUM(rows, comments)]

\* SELECT * FROM get_creator_stats(creator)
CallCreatorStats(creator) ==
  lastCall' = [fn |-> "get_creator_stats", creator |-> creator,
               result |-> get_creator_stats(creator)]

\* UPDATE posts SET deleted_at = now() WHERE id = p
SoftDeletePost(p) ==
  /\ p \in DOMAIN post_cols
  /\ post_cols[p].deleted_at = NULL
  /\ post_cols' = [post_cols EXCEPT ![p].deleted_at = clock]

\* UPDATE series SET deleted_at = now() WHERE id = s
SoftDeleteSeries(s) ==
  /\ s \in DOMAIN series_cols
  /\ series_cols[s].deleted_at = NULL
  /\ series_cols' = [series_cols EXCEPT ![s].deleted_at = clock]

\* the sequences that list every element of S once
Orderings(S) ==
  {q \in [1..Cardinality(S) -> S] : \A i, j \in DOMAIN q : i # j => q[i] # q[j]}

\* the feeds' WHERE clause without its deleted_at conditions
FeedWhereDeletedToo(p, s) == post_cols[p].is_published

\* the feeds' WHERE clause, for post p joined with series s
FeedWhere(p, s) ==
  /\ post_cols[p].is_published
  /\ post_cols[p].deleted_at = NULL
  /\ series_cols[s].deleted_at = NULL

\* ORDER BY p.created_at DESC: any order of the rows that has no older post
\* before a newer one (rows of equal created_at come in either order)
OrderByCreatedAtDesc(rows) ==
  {q \in Orderings(rows) :
     \A i, j \in DOMAIN q :
       i < j => post_cols[q[i][1]].created_at >= post_cols[q[j][1]].created_at}

\* LIMIT feed_limit OFFSET feed_offset
LimitOffset(q, feed_limit, feed_offset) ==
  SubSeq(q, feed_offset + 1,
         IF feed_offset + feed_limit < Len(q) THEN feed_offset + feed_limit
         ELSE Len(q))

\* the columns both feeds select for a joined row <<post, user, series>>
FeedColumns(r, user_uuid) ==
  [post_id |-> r[1],
   series_id |-> r[3],
   creator_id |-> r[2],
   post_created_at |-> post_cols[r[1]].created_at,
   likes_count |-> posts[r[1]].likes_count,
   comments_count |-> posts[r[1]].comments_count,
   user_has_liked |->
     \E pl \in post_likes : pl.post_id = r[1] /\ pl.user_id = user_uuid]

\* get_discovery_feed(user_uuid, feed_limit): the results it may return
get_discovery_feed(user_uuid, feed_limit) ==
  LET joined == {r \in (DOMAIN posts) \X Users \X (DOMAIN series) :
                   posts[r[1]].user_id = r[2] /\ posts[r[1]].series_id = r[3]}
      rows == {r \in joined : FeedWhere(r[1], r[3])}
  IN {[i \in DOMAIN q |->
         [column \in DOMAIN FeedColumns(q[i], user_uuid)
                     \cup {"user_follows_creator"} |->
            IF column = "user_follows_creator"
            THEN \E f \in follows :
                   f.following_id = q[i][2] /\ f.follower_id = user_uuid
            ELSE FeedColumns(q[i], user_uuid)[column]]] :
      q \in {LimitOffset(o, feed_limit, 0) : o \in OrderByCreatedAtDesc(rows)}}

\* get_user_feed(user_uuid, feed_limit, feed_offset): the results it may return
get_user_feed(user_uuid, feed_limit, feed_offset) ==
  LET joined == {r \in (DOMAIN posts) \X Users \X (DOMAIN series) \X follows :
                   /\ posts[r[1]].user_id = r[2]
                   /\ posts[r[1]].series_id = r[3]
                   /\ r[4].following_id = posts[r[1]].user_id
                   /\ r[4].follower_id = user_uuid}
      rows == {r \in joined : FeedWhere(r[1], r[3])}
  IN {[i \in DOMAIN q |-> FeedColumns(q[i], user_uuid)] :
      q \in {LimitOffset(o, feed_limit, feed_offset) :
               o \in OrderByCreatedAtDesc(rows)}}

\* SELECT * FROM get_discovery_feed(user, limit)
CallDiscoveryFeed(user_uuid, feed_limit) ==
  \E result \in get_discovery_feed(user_uuid, feed_limit) :
    lastCall' = [fn |-> "get_discovery_feed", user |-> user_uuid,
                 limit |-> feed_limit, result |-> result]

\* SELECT * FROM get_user_feed(user, limit, offset)
CallUserFeed(user_uuid, feed_limit, feed_offset) ==
  \E result \in get_user_feed(user_uuid, feed_limit, feed_offset) :
    lastCall' = [fn |-> "get_user_feed", user |-> user_uuid,
                 limit |-> feed_limit, offset |-> feed_offset,
                 result |-> result]

\* ------------------------------------------------------ createCreatorProfile
NoAnswer == [query |-> "none"]

Idle == [pc |-> "idle", n |-> 0, user |-> NoUser, load |-> 0, result |-> "none"]

\* every account gets its users row with the default role
InitCreator ==
  /\ users_role = [u \in Users |-> "user"]
  /\ answered = NoAnswer
  /\ ccp = Idle
  /\ writes = <<>>

\* users.role of an account is set by an administrator (no component of the
\* client sets 'admin' or sets a creator back to 'user')
AdminSetsRole(u, role) ==
  /\ users_role[u] # role
  /\ users_role' = [users_role EXCEPT ![u] = role]
  /\ UNCHANGED <<answered, ccp, writes>>

\* a createCreatorProfile of another session went through: the role and the row
EarlierCreator(u) ==
  /\ users_role[u] = "user"
  /\ users_role' = [users_role EXCEPT ![u] = "creator"]
  /\ CreateCreatorProfile(u)
  /\ UNCHANGED <<answered, ccp, writes>>

\* refreshProfile: if (user) await loadUserProfile(user.id)
RefreshProfile ==
  /\ mountPc = "subscribed"
  /\ user # NoUser
  /\ StartLoad(user)
  /\ UNCHANGED <<provSession, nextTok, eventQueue, mountPc, session, user,
                 userProfile, creatorProfile, loading, initialLoadCompleteRef,
                 signOutPc>>

\* the users query of a load is answered: by the row's role, or not at all
UsersQueryAnswers(l, result) ==
  /\ LoadUsersReturn(l, result)
  /\ answered' = [query |-> "users", load |-> l, result |-> result]
  /\ UNCHANGED <<users_role, ccp, writes>>

\* the creator_profiles query of a load is answered; .single() finds the
\* user's row or returns an error
CreatorQueryAnswers(l, result) ==
  /\ LoadCreatorReturn(l, result)
  /\ answered' = [query |-> "creator_profiles", load |-> l, result |-> result]
  /\ UNCHANGED <<users_role, ccp, writes>>

\* the call goes on to the insert whatever updateUserRole returned
ReturnsRoleErrorNever(roleError) == FALSE

\* if (roleError) return { error: roleError }
ReturnsRoleError(roleError) == roleError

\* createCreatorProfile up to its first await: without a user it returns
\* 'Not authenticated'; with one, updateUserRole('creator') sends its UPDATE
CreateCreatorProfileCall ==
  /\ mountPc = "subscribed"
  /\ ccp.pc \in {"idle", "done"}
  /\ ccp.n < MaxCalls
  /\ IF user = NoUser
     THEN /\ ccp' = [pc |-> "done", n |-> ccp.n + 1, user |-> NoUser, load |-> 0,
                     result |-> "Not authenticated"]
          /\ UNCHANGED writes
     ELSE /\ ccp' = [pc |-> "role", n |-> ccp.n + 1, user |-> user, load |-> 0,
                     result |-> "none"]
          /\ writes' = Append(writes, [call |-> ccp.n + 1, stmt |-> "update users",
                                       answer |-> "pending"])
  /\ UNCHANGED <<users_role, answered>>

\* the answer to the write sent last
Answered(log, a) == [log EXCEPT ![Len(log)].answer = a]

\* createCreatorProfile once updateUserRole has returned: the role error is
\* returned, or the INSERT INTO creator_profiles is sent
AfterUpdateUserRole(roleError, log) ==
  IF ReturnsRoleError(roleError)
  THEN /\ ccp' = [ccp EXCEPT !.pc = "done", !.result = "role error"]
       /\ writes' = log
  ELSE /\ ccp' = [ccp EXCEPT !.pc = "insert"]
       /\ writes' = Append(log, [call |-> ccp.n, stmt |-> "insert creator_profiles",
                                 answer |-> "pending"])

\* updateUserRole after its UPDATE: with an error it returns it at once,
\* without one it starts loadUserProfile and awaits it
UpdateUserRoleReturn(error) ==
  /\ ccp.pc = "role"
  /\ IF error
     THEN /\ AfterUpdateUserRole(TRUE, Answered(writes, "error"))
          /\ UNCHANGED <<users_role, loads, nextLoadId>>
     ELSE /\ users_role' = [users_role EXCEPT ![ccp.user] = "creator"]
          /\ StartLoad(ccp.user)
          /\ ccp' = [ccp EXCEPT !.pc = "role load", !.load = nextLoadId]
          /\ writes' = Answered(writes, "no error")
  /\ UNCHANGED <<answered, dbVars, provSession, nextTok, eventQueue, mountPc, session,
                 user, userProfile, creatorProfile, loading, initialLoadCompleteRef,
                 signOutPc>>

\* the load updateUserRole awaited is over: updateUserRole returns no error
UpdateUserRoleLoaded ==
  /\ ccp.pc = "role load"
  /\ \A l \in loads : l.id # ccp.load
  /\ AfterUpdateUserRole(FALSE, writes)
  /\ UNCHANGED <<users_role, answered>>

\* createCreatorProfile after its INSERT: an error is returned as it is,
\* otherwise loadUserProfile is started and awaited
InsertCreatorReturn(error) ==
  /\ ccp.pc = "insert"
  /\ IF error
     THEN /\ ccp' = [ccp EXCEPT !.pc = "done", !.result = "insert error"]
          /\ writes' = Answered(writes, "error")
          /\ UNCHANGED <<dbVars, loads, nextLoadId>>
     ELSE /\ CreateCreatorProfile(ccp.user)
          /\ StartLoad(ccp.user)
          /\ ccp' = [ccp EXCEPT !.pc = "insert load", !.load = nextLoadId]
          /\ writes' = Answered(writes, "no error")
  /\ UNCHANGED <<users_role, answered, provSession, nextTok, eventQueue,
                 mountPc, session, user, userProfile, creatorProfile, loading,
                 initialLoadCompleteRef, signOutPc>>

\* the load createCreatorProfile awaited is over: it returns no error
InsertCreatorLoaded ==
  /\ ccp.pc = "insert load"
  /\ \A l \in loads : l.id # ccp.load
  /\ ccp' = [ccp EXCEPT !.pc = "done", !.result = "no error"]
  /\ UNCHANGED <<users_role, answered, writes>>

\* ------------------------------------------------------------ settings page
Emails == {"old", "new"}

\* the account form's fields after validation: currentPassword has eight
\* characters or more, newPassword is optional
AccountFormData == [email : Emails, newPassword : BOOLEAN]

NoSubmission == [pc |-> "idle", n |-> 0, user |-> NoUser,
                 data |-> [email |-> "old", newPassword |-> FALSE]]

\* the page as it mounts: no message, no field error, the button enabled
InitSettings ==
  /\ form = [isLoading |-> FALSE, successMessage |-> FALSE, errorMessage |-> "none",
             currentPassword |-> FALSE]
  /\ submission = NoSubmission
  /\ authRequests = <<>>
  /\ msgTimers = {}

\* userProfile?.email: every account's users row holds its sign-up address
ProfileEmail(profile) == IF profile = NoProfile THEN "undefined" ELSE "old"

\* the page after setIsLoading(true), setSuccessMessage(null),
\* setErrorMessage(null); handleSubmit's validation replaced the field errors
Started ==
  [isLoading |-> TRUE, successMessage |-> FALSE, errorMessage |-> "none",
   currentPassword |-> FALSE]

Request(sub, kind) == [n |-> sub.n, kind |-> kind, answer |-> "pending"]

\* the end of the try block, then finally: the success message, its 3 s
\* timer, accountForm.reset and setIsLoading(false)
Succeed(f, sub) ==
  /\ form' = [f EXCEPT !.isLoading = FALSE, !.successMessage = TRUE,
                       !.currentPassword = FALSE]
  /\ msgTimers' = msgTimers \cup {[n |-> sub.n, clears |-> "successMessage"]}
  /\ submission' = [sub EXCEPT !.pc = "idle"]

\* catch, then finally: the error's message, its 5 s timer and
\* setIsLoading(false)
Fail(f, sub, message) ==
  /\ form' = [f EXCEPT !.isLoading = FALSE, !.errorMessage = message]
  /\ msgTimers' = msgTimers \cup {[n |-> sub.n, clears |-> "errorMessage"]}
  /\ submission' = [sub EXCEPT !.pc = "idle"]

\* if (data.newPassword && data.currentPassword): signInWithPassword is
\* sent; otherwise the submission is over
PasswordPart(f, sub, log) ==
  IF sub.data.newPassword
  THEN /\ submission' = [sub EXCEPT !.pc = "sign in"]
       /\ authRequests' = Append(log, Request(sub, "signInWithPassword"))
       /\ form' = f
       /\ UNCHANGED msgTimers
  ELSE /\ Succeed(f, sub)
       /\ authRequests' = log

\* onAccountSubmit up to its first await
OnAccountSubmit(data) ==
  /\ mountPc = "subscribed"
  /\ submission.pc = "idle"
  /\ ~form.isLoading
  /\ submission.n < MaxSubmits
  /\ LET sub == [pc |-> "idle", n |-> submission.n + 1, user |-> user, data |-> data]
     IN IF user = NoUser
        THEN /\ form' = [form EXCEPT !.errorMessage = "not logged in",
                                     !.currentPassword = FALSE]
             /\ submission' = sub
             /\ UNCHANGED <<authRequests, msgTimers>>
        ELSE IF data.email # ProfileEmail(userProfile)
        THEN /\ submission' = [sub EXCEPT !.pc = "email"]
             /\ authRequests' = Append(authRequests, Request(sub, "updateUser email"))
             /\ form' = Started
             /\ UNCHANGED msgTimers
        ELSE PasswordPart(Started, sub, authRequests)

\* the provider tells its subscribers that the user was updated
EmitUserUpdated ==
  /\ Len(eventQueue) < MaxQueue
  /\ Emit(Event("USER_UPDATED", provSession))
  /\ UNCHANGED <<provSession, nextTok>>

\* updateUser({ email }) returned
EmailReturn(emailError) ==
  /\ submission.pc = "email"
  /\ IF emailError
     THEN /\ Fail(form, submission, "email error")
          /\ authRequests' = Answered(authRequests, "error")
          /\ UNCHANGED <<provSession, nextTok, eventQueue>>
     ELSE /\ EmitUserUpdated
          /\ PasswordPart(form, submission, Answered(authRequests, "no error"))
  /\ UNCHANGED <<mountPc, session, user, userProfile, creatorProfile, loading,
                 initialLoadCompleteRef, loads, nextLoadId, signOutPc>>

\* the password is updated whatever the sign-in returned
ThrowsSignInErrorNever(signInError) == FALSE

\* if (signInError) { setError('currentPassword', ...); throw signInError }
ThrowsSignInError(signInError) == signInError

\* signInWithPassword returned: an error marks the field and is thrown to the
\* catch block; otherwise the provider holds a new session of the user and
\* updateUser({ password }) is sent
SignInReturn(signInError) ==
  /\ submission.pc = "sign in"
  /\ IF signInError
     THEN UNCHANGED <<provSession, nextTok, eventQueue>>
     ELSE /\ nextTok <= MaxTok
          /\ Len(eventQueue) < MaxQueue
          /\ provSession' = [user |-> submission.user, tok |-> nextTok]
          /\ nextTok' = nextTok + 1
          /\ Emit(Event("SIGNED_IN", provSession'))
  /\ LET log == Answered(authRequests, IF signInError THEN "error" ELSE "no error")
     IN IF ThrowsSignInError(signInError)
        THEN /\ Fail([form EXCEPT !.currentPassword = TRUE], submission,
                     "sign-in error")
             /\ authRequests' = log
        ELSE /\ submission' = [submission EXCEPT !.pc = "password"]
             /\ authRequests' = Append(log, Request(submission, "updateUser password"))
             /\ UNCHANGED <<form, msgTimers>>
  /\ UNCHANGED <<mountPc, session, user, userProfile, creatorProfile, loading,
                 initialLoadCompleteRef, loads, nextLoadId, signOutPc>>

\* updateUser({ password }) returned
PasswordReturn(passwordError) ==
  /\ submission.pc = "password"
  /\ authRequests' = Answered(authRequests,
                              IF passwordError THEN "error" ELSE "no error")
  /\ IF passwordError
     THEN /\ Fail(form, submission, "password error")
          /\ UNCHANGED <<provSession, nextTok, eventQueue>>
     ELSE /\ EmitUserUpdated
          /\ Succeed(form, submission)
  /\ UNCHANGED <<mountPc, session, user, userProfile, creatorProfile, loading,
                 initialLoadCompleteRef, loads, nextLoadId, signOutPc>>

\* setTimeout(() => setSuccessMessage(null), 3000) or
\* setTimeout(() => setErrorMessage(null), 5000) fires
MessageTimerFires(timer) ==
  /\ timer \in msgTimers
  /\ msgTimers' = msgTimers \ {timer}
  /\ form' = IF timer.clears = "successMessage"
             THEN [form EXCEPT !.successMessage = FALSE]
             ELSE [form EXCEPT !.errorMessage = "none"]
  /\ UNCHANGED <<submission, authRequests>>

\* ----------------------------------------------------------- specifications
\* one more statement of at most MaxOps
Tick == nops < MaxOps /\ nops' = nops + 1

\* a statement sent by some other session: no component of this one changes
Elsewhere == UNCHANGED <<txVars, clientVars, authVars, restVars>>

\* Every statement on every counted table, MaxOps statements at most
NextDb ==
  \/ \E u \in Users : Tick /\ Elsewhere /\ CreateCreatorProfile(u)
  \/ \E u \in Users, p \in PostIds : Tick /\ Elsewhere /\ InsertLike(u, p)
  \/ \E u \in Users, p \in PostIds : Tick /\ Elsewhere /\ DeleteLike(u, p)
  \/ \E p \in PostIds : Tick /\ Elsewhere /\ InsertComment(p)
  \/ \E r \in post_comments : Tick /\ Elsewhere /\ DeleteComment(r)
  \/ \E f \in Users, g \in Users : Tick /\ Elsewhere /\ InsertFollow(f, g)
  \/ \E f \in Users, g \in Users : Tick /\ Elsewhere /\ DeleteFollow(f, g)
  \/ \E u \in Users, s \in SeriesIds \cup {NULL} :
       Tick /\ Elsewhere /\ InsertPost(u, s)
  \/ \E p \in PostIds : Tick /\ Elsewhere /\ DeletePost(p)
  \/ \E u \in Users : Tick /\ Elsewhere /\ InsertSeries(u)
  \/ \E s \in SeriesIds : Tick /\ Elsewhere /\ DeleteSeries(s)

\* The statements the client issues on posts and post_likes, any number of them
NextLikes ==
  \/ \E u \in Users : UNCHANGED nops /\ Elsewhere /\ CreateCreatorProfile(u)
  \/ \E u \in Users, p \in PostIds : UNCHANGED nops /\ Elsewhere /\ InsertLike(u, p)
  \/ \E u \in Users, p \in PostIds : UNCHANGED nops /\ Elsewhere /\ DeleteLike(u, p)
  \/ \E u \in Users : UNCHANGED nops /\ Elsewhere /\ InsertPost(u, NULL)
  \/ \E p \in PostIds : UNCHANGED nops /\ Elsewhere /\ DeletePost(p)

OwnsNoPost(u) == \A p \in DOMAIN posts : posts[p].user_id # u

\* The same statements when a user becomes a creator before publishing
NextCreatorFirst ==
  \/ \E u \in Users :
       OwnsNoPost(u) /\ UNCHANGED nops /\ Elsewhere /\ CreateCreatorProfile(u)
  \/ \E u \in Users, p \in PostIds : UNCHANGED nops /\ Elsewhere /\ InsertLike(u, p)
  \/ \E u \in Users, p \in PostIds : UNCHANGED nops /\ Elsewhere /\ DeleteLike(u, p)
  \/ \E u \in Users : UNCHANGED nops /\ Elsewhere /\ InsertPost(u, NULL)
  \/ \E p \in PostIds : UNCHANGED nops /\ Elsewhere /\ DeletePost(p)

\* One PostCard and one CreatorProfilePage next to everybody's statements on
\* post_likes and follows, MaxOps steps at most
NextClient ==
  \/ \E u \in Users : Tick /\ Elsewhere /\ CreateCreatorProfile(u)
  \/ \E u \in Users : Tick /\ Elsewhere /\ InsertPost(u, NULL)
  \/ \E u \in Users, p \in PostIds : Tick /\ Elsewhere /\ InsertLike(u, p)
  \/ \E u \in Users, p \in PostIds : Tick /\ Elsewhere /\ DeleteLike(u, p)
  \/ \E f \in Users, g \in Users : Tick /\ Elsewhere /\ InsertFollow(f, g)
  \/ \E f \in Users, g \in Users : Tick /\ Elsewhere /\ DeleteFollow(f, g)
  \/ \E u \in Users, p \in PostIds : Tick /\ UNCHANGED <<authVars, restVars>> /\ MountCard(u, p)
  \/ Tick /\ UNCHANGED <<authVars, restVars>> /\ HandleLikeSelect
  \/ Tick /\ UNCHANGED <<authVars, restVars>> /\ HandleLikeMutate
  \/ \E u \in Users, c \in Users : Tick /\ UNCHANGED <<authVars, restVars>> /\ MountCreatorPage(u, c)
  \/ Tick /\ UNCHANGED <<authVars, restVars>> /\ HandleFollow
  \/ \E amount \in 1..MaxAmount : Tick /\ UNCHANGED <<authVars, restVars>> /\ HandleSupport(amount)

\* one step of the auth context: nothing in the database moves
AuthOnly == UNCHANGED <<dbVars, nops, txVars, clientVars, restVars>>

QueryResults == Roles \cup {"error", "throws"}

\* The auth context, the provider's events and the profile queries' answers
NextAuth ==
  \/ AuthOnly /\ Mount
  \/ AuthOnly /\ Unmount
  \/ \E u \in Users : AuthOnly /\ ProviderSignIn(u)
  \/ AuthOnly /\ ProviderTokenRefresh
  \/ AuthOnly /\ ProviderSignOut
  \/ AuthOnly /\ OnAuthStateChange
  \/ \E l \in loads, r \in QueryResults : AuthOnly /\ LoadUsersReturn(l, r)
  \/ \E l \in loads, r \in {"row", "error", "throws"} :
       AuthOnly /\ LoadCreatorReturn(l, r)
  \/ \E ok \in BOOLEAN : AuthOnly /\ SignOutCall(ok)
  \/ AuthOnly /\ SignOutReturn

Init == InitDb /\ nops = 0 /\ InitClient /\ InitAuth /\ InitRoute /\ InitScript
        /\ InitCallback /\ InitAppData /\ InitSql /\ InitCreator /\ InitSettings

\* the database and the pages of a browser whose provider holds no session
InitSignedOut == Init /\ provSession = NoSession

SpecDb == InitSignedOut /\ [][NextDb]_vars

SpecLikes == InitSignedOut /\ [][NextLikes]_vars

SpecCreatorFirst == InitSignedOut /\ [][NextCreatorFirst]_vars

SpecClient == InitSignedOut /\ [][NextClient]_vars

SpecAuth == Init /\ [][NextAuth]_vars

\* one step of the route: the auth context and the database stay
RouteOnly ==
  UNCHANGED <<dbVars, nops, txVars, clientVars, authVars, scriptVars, cbVars,
              appDataVars, sqlVars, creatorVars, settingsVars>>

\* one step of the auth context next to a route
AuthBesideRoute == UNCHANGED <<dbVars, nops, txVars, clientVars, restVars>>

\* A ProtectedRoute under the auth context, the provider's events and sign-out
NextRoute ==
  \/ AuthBesideRoute /\ Mount
  \/ AuthBesideRoute /\ Unmount
  \/ \E u \in Users : AuthBesideRoute /\ ProviderSignIn(u)
  \/ AuthBesideRoute /\ ProviderSignOut
  \/ AuthBesideRoute /\ OnAuthStateChange
  \/ AuthBesideRoute /\ SignOutCall(TRUE)
  \/ AuthBesideRoute /\ SignOutReturn
  \/ RouteOnly /\ RouteRender
  \/ RouteOnly /\ RouteEffect
  \/ \E p \in Paths : RouteOnly /\ UserNavigates(p)

\* React runs a scheduled render and the effects of a committed render
SpecRoute ==
  /\ Init
  /\ [][NextRoute]_vars
  /\ WF_vars(RouteOnly /\ RouteRender)
  /\ WF_vars(RouteOnly /\ RouteEffect)

\* one step of the cleanup script: it touches the file system only
ScriptOnly ==
  UNCHANGED <<dbVars, nops, txVars, clientVars, authVars, routeVars, cbVars,
              appDataVars, sqlVars, creatorVars, settingsVars>>

\* One run of the cleanup script, whatever was removed before and is typed
NextCleanup ==
  \/ \E i \in DOMAIN itemsToRemove : ScriptOnly /\ PriorRemoval(i)
  \/ ScriptOnly /\ MainPrompt
  \/ scriptPc = "prompt" /\ \E line \in Answers : ScriptOnly /\ MainAnswer(line)
  \/ \E throws \in BOOLEAN : ScriptOnly /\ MainRemove(throws)
  \/ ScriptOnly /\ MainComplete

SpecCleanup == InitSignedOut /\ [][NextCleanup]_vars

\* one step of the callback page: only the provider's session moves with it
CallbackOnly ==
  UNCHANGED <<dbVars, nops, txVars, clientVars, routeVars, scriptVars, appDataVars,
              sqlVars, creatorVars, settingsVars, eventQueue, mountPc, session, user, userProfile, creatorProfile, loading,
              initialLoadCompleteRef, loads, nextLoadId, signOutPc>>

\* The OAuth callback page, its timers and the provider
NextCallback ==
  \/ \E errorParam \in BOOLEAN :
       CallbackOnly /\ UNCHANGED <<provSession, nextTok>> /\ CallbackMount(errorParam)
  \/ \E u \in Users : CallbackOnly /\ OAuthSignIn(u)
  \/ CallbackOnly /\ OAuthTokenRefresh
  \/ CallbackOnly /\ OAuthSignOut
  \/ CallbackOnly /\ UNCHANGED <<provSession, nextTok>> /\ CallbackAuthEvent
  \/ CallbackOnly /\ UNCHANGED <<provSession, nextTok>> /\ IntervalTick
  \/ \E sessionError \in BOOLEAN :
       CallbackOnly /\ UNCHANGED <<provSession, nextTok>>
         /\ CheckSessionReturn(sessionError)
  \/ CallbackOnly /\ UNCHANGED <<provSession, nextTok>> /\ TimeoutFires
  \/ CallbackOnly /\ UNCHANGED <<provSession, nextTok>> /\ LoginTimerFires
  \/ CallbackOnly /\ UNCHANGED <<provSession, nextTok>> /\ CallbackUnmount

\* a timer that was set and not cleared fires
SpecCallback ==
  /\ Init
  /\ [][NextCallback]_vars
  /\ WF_vars(CallbackOnly /\ UNCHANGED <<provSession, nextTok>> /\ LoginTimerFires)

\* one step of the AppDataProvider
AppDataOnly ==
  UNCHANGED <<dbVars, nops, txVars, clientVars, authVars, routeVars, scriptVars,
              cbVars, sqlVars, creatorVars, settingsVars>>

\* a statement on posts next to the AppDataProvider
PostsBesideAppData == UNCHANGED <<nops, txVars, clientVars, authVars, restVars>>

\* The post page's fetches of single posts while posts are published and deleted
NextAppData ==
  \/ \E u \in Users : PostsBesideAppData /\ InsertPost(u, NULL)
  \/ \E p \in PostIds : PostsBesideAppData /\ DeletePost(p)
  \/ \E p \in PostIds : AppDataOnly /\ FetchSinglePost(p)
  \/ \E f \in fetches, failed \in BOOLEAN :
       AppDataOnly /\ FetchSinglePostReturn(f, failed)

SpecAppData == InitSignedOut /\ [][NextAppData]_vars

\* a statement or a call in the database: no component of the client moves
NoClient ==
  UNCHANGED <<clientVars, authVars, routeVars, scriptVars, cbVars, appDataVars,
              creatorVars, settingsVars>>

\* What a creator accumulates, and calls of get_creator_stats, MaxOps at most
NextStats ==
  \/ \E f \in Users, g \in Users, amount \in 1..MaxAmount, st \in TxStatuses :
       /\ Tick /\ NoClient /\ InsertTransaction(f, g, amount, st)
       /\ UNCHANGED <<dbVars, sqlVars>>
  \/ \E g \in Users, st \in SubStatuses :
       /\ Tick /\ NoClient /\ InsertSubscription(g, st)
       /\ UNCHANGED <<dbVars, txVars, post_cols, series_cols, clock, lastCall>>
  \/ \E u \in Users :
       /\ Tick /\ NoClient /\ PublishPost(u, NULL, TRUE, clock)
       /\ UNCHANGED <<txVars, subscriptions, nextSubId, series_cols, lastCall>>
  \/ \E u \in Users :
       /\ Tick /\ NoClient /\ CreateSeries(u)
       /\ UNCHANGED <<txVars, subscriptions, nextSubId, post_cols, clock, lastCall>>
  \/ \E c \in Users :
       /\ Tick /\ NoClient /\ CallCreatorStats(c)
       /\ UNCHANGED <<dbVars, txVars, subscriptions, nextSubId, post_cols,
                      series_cols, clock>>

SpecStats == InitSignedOut /\ [][NextStats]_vars

\* one more statement of at most MaxFeedOps, before the feeds are read
FeedTick == nops < MaxFeedOps /\ lastCall = NoCall /\ nops' = nops + 1

\* the one call that ends a history of statements
OneCall == lastCall = NoCall /\ UNCHANGED nops

\* Posts, series, follows and likes as get_discovery_feed reads them, then a
\* call of it
NextDiscovery ==
  \/ \E u \in Users :
       /\ FeedTick /\ NoClient /\ CreateSeries(u)
       /\ UNCHANGED <<txVars, subscriptions, nextSubId, post_cols, clock, lastCall>>
  \/ \E u \in Users, s \in SeriesIds \cup {NULL}, is_published \in BOOLEAN,
        now \in {clock, clock + 1} :
       /\ FeedTick /\ NoClient /\ PublishPost(u, s, is_published, now)
       /\ UNCHANGED <<txVars, subscriptions, nextSubId, series_cols, lastCall>>
  \/ \E p \in PostIds :
       /\ FeedTick /\ NoClient /\ SoftDeletePost(p)
       /\ UNCHANGED <<dbVars, txVars, subscriptions, nextSubId, series_cols, clock,
                      lastCall>>
  \/ \E s \in SeriesIds :
       /\ FeedTick /\ NoClient /\ SoftDeleteSeries(s)
       /\ UNCHANGED <<dbVars, txVars, subscriptions, nextSubId, post_cols, clock,
                      lastCall>>
  \/ \E f \in Users, g \in Users :
       FeedTick /\ NoClient /\ InsertFollow(f, g) /\ UNCHANGED <<txVars, sqlVars>>
  \/ \E u \in Users, p \in PostIds :
       FeedTick /\ NoClient /\ InsertLike(u, p) /\ UNCHANGED <<txVars, sqlVars>>
  \/ \E u \in Users, feed_limit \in 0..MaxLimit :
       /\ OneCall /\ NoClient /\ CallDiscoveryFeed(u, feed_limit)
       /\ UNCHANGED <<dbVars, txVars, subscriptions, nextSubId, post_cols,
                      series_cols, clock>>

SpecDiscovery == InitSignedOut /\ [][NextDiscovery]_vars

\* Posts, series and follows as get_user_feed reads them, then a call of it
NextUserFeed ==
  \/ \E u \in Users :
       /\ FeedTick /\ NoClient /\ CreateSeries(u)
       /\ UNCHANGED <<txVars, subscriptions, nextSubId, post_cols, clock, lastCall>>
  \/ \E u \in Users, s \in SeriesIds \cup {NULL}, is_published \in BOOLEAN,
        now \in {clock, clock + 1} :
       /\ FeedTick /\ NoClient /\ PublishPost(u, s, is_published, now)
       /\ UNCHANGED <<txVars, subscriptions, nextSubId, series_cols, lastCall>>
  \/ \E p \in PostIds :
       /\ FeedTick /\ NoClient /\ SoftDeletePost(p)
       /\ UNCHANGED <<dbVars, txVars, subscriptions, nextSubId, series_cols, clock,
                      lastCall>>
  \/ \E s \in SeriesIds :
       /\ FeedTick /\ NoClient /\ SoftDeleteSeries(s)
       /\ UNCHANGED <<dbVars, txVars, subscriptions, nextSubId, post_cols, clock,
                      lastCall>>
  \/ \E f \in Users, g \in Users :
       FeedTick /\ NoClient /\ InsertFollow(f, g) /\ UNCHANGED <<txVars, sqlVars>>
  \/ \E f \in Users, g \in Users :
       FeedTick /\ NoClient /\ DeleteFollow(f, g) /\ UNCHANGED <<txVars, sqlVars>>
  \/ \E u \in Users, feed_limit \in 0..MaxLimit, feed_offset \in 0..MaxOffset :
       /\ OneCall /\ NoClient /\ CallUserFeed(u, feed_limit, feed_offset)
       /\ UNCHANGED <<dbVars, txVars, subscriptions, nextSubId, post_cols,
                      series_cols, clock>>

SpecUserFeed == InitSignedOut /\ [][NextUserFeed]_vars

\* one step of createCreatorProfile that touches its own state only
CallOnly ==
  UNCHANGED <<dbVars, nops, txVars, clientVars, authVars, routeVars, scriptVars,
              cbVars, appDataVars, sqlVars, settingsVars>>

\* one step of the auth context next to a call
AuthBesideCall ==
  UNCHANGED <<dbVars, nops, txVars, clientVars, routeVars, scriptVars, cbVars,
              appDataVars, sqlVars, settingsVars>>

\* one step of the call that starts a load or writes creator_profiles
CallAndLoad ==
  UNCHANGED <<nops, txVars, clientVars, routeVars, scriptVars, cbVars, appDataVars,
              sqlVars, settingsVars>>

\* .single() on users: the row's role, an error, or an exception
UsersAnswers(l) == {users_role[l.userId], "error", "throws"}

\* .single() on creator_profiles: the user's row if there is one
CreatorAnswers(l) ==
  IF l.userId \in DOMAIN creator_profiles THEN {"row", "error", "throws"}
  ELSE {"error", "throws"}

\* createCreatorProfile under the auth context: the provider's events, the
\* answers to the profile queries and to the call's two writes
NextCreator ==
  \/ AuthBesideCall /\ UNCHANGED creatorVars /\ Mount
  \/ AuthBesideCall /\ UNCHANGED creatorVars /\ ProviderSignOut
  \/ AuthBesideCall /\ UNCHANGED creatorVars /\ OnAuthStateChange
  \/ \E l \in loads : \E r \in UsersAnswers(l) :
       AuthBesideCall /\ UNCHANGED creatorVars /\ LoadUsersReturn(l, r)
  \/ \E l \in loads : \E r \in CreatorAnswers(l) :
       AuthBesideCall /\ UNCHANGED creatorVars /\ LoadCreatorReturn(l, r)
  \/ CallOnly /\ CreateCreatorProfileCall
  \/ \E error \in BOOLEAN : CallAndLoad /\ UpdateUserRoleReturn(error)
  \/ CallOnly /\ UpdateUserRoleLoaded
  \/ \E error \in BOOLEAN : CallAndLoad /\ InsertCreatorReturn(error)
  \/ CallOnly /\ InsertCreatorLoaded

SpecCreator == Init /\ [][NextCreator]_vars

\* one more change of the database by somebody else, of at most MaxRoleOps
RoleTick == nops < MaxRoleOps /\ nops' = nops + 1

\* one step of the auth context next to the users table
AuthBesideUsers ==
  UNCHANGED <<dbVars, nops, txVars, clientVars, routeVars, scriptVars, cbVars,
              appDataVars, sqlVars, settingsVars>>

\* a change of the database next to the auth context
UsersOnly ==
  UNCHANGED <<txVars, clientVars, authVars, routeVars, scriptVars, cbVars,
              appDataVars, sqlVars, settingsVars>>

\* loadUserProfile, started by auth events and by refreshProfile, while roles
\* change and creator profiles appear in the database
NextProfile ==
  \/ AuthBesideUsers /\ UNCHANGED creatorVars /\ Mount
  \/ AuthBesideUsers /\ UNCHANGED creatorVars /\ ProviderSignOut
  \/ AuthBesideUsers /\ UNCHANGED creatorVars /\ OnAuthStateChange
  \/ AuthBesideUsers /\ UNCHANGED creatorVars /\ RefreshProfile
  \/ \E l \in loads : \E r \in UsersAnswers(l) :
       AuthBesideUsers /\ UsersQueryAnswers(l, r)
  \/ \E l \in loads : \E r \in CreatorAnswers(l) :
       AuthBesideUsers /\ CreatorQueryAnswers(l, r)
  \/ \E u \in Users, role \in Roles :
       RoleTick /\ UsersOnly /\ UNCHANGED dbVars /\ AdminSetsRole(u, role)
  \/ \E u \in Users : RoleTick /\ UsersOnly /\ EarlierCreator(u)

SpecProfile == Init /\ [][NextProfile]_vars

\* one step of the settings page that touches its own state only
SettingsOnly ==
  UNCHANGED <<dbVars, nops, txVars, clientVars, authVars, routeVars, scriptVars,
              cbVars, appDataVars, sqlVars, creatorVars>>

\* one step of the auth context, or of the page and the provider
NoDatabase ==
  UNCHANGED <<dbVars, nops, txVars, clientVars, routeVars, scriptVars, cbVars,
              appDataVars, sqlVars, creatorVars>>

\* The account form under the auth context: submissions, the provider's
\* answers, the message timers, and the events the answers bring
NextSettings ==
  \/ NoDatabase /\ UNCHANGED settingsVars /\ Mount
  \/ NoDatabase /\ UNCHANGED settingsVars /\ OnAuthStateChange
  \/ \E l \in loads, r \in {"user", "error"} :
       NoDatabase /\ UNCHANGED settingsVars /\ LoadUsersReturn(l, r)
  \/ \E data \in AccountFormData : SettingsOnly /\ OnAccountSubmit(data)
  \/ \E emailError \in BOOLEAN : NoDatabase /\ EmailReturn(emailError)
  \/ \E signInError \in BOOLEAN : NoDatabase /\ SignInReturn(signInError)
  \/ \E passwordError \in BOOLEAN : NoDatabase /\ PasswordReturn(passwordError)
  \/ \E timer \in msgTimers : SettingsOnly /\ MessageTimerFires(timer)

SpecSettings == Init /\ [][NextSettings]_vars

\* ------------------------------------------------------------------ claims
LikesOn(p) == {r \in post_likes : r.post_id = p}

FollowersOf(c) == {f \in follows : f.following_id = c}

PostsOwnedBy(u) == {p \in DOMAIN posts : posts[p].user_id = u}

PostsIn(s) == {p \in DOMAIN posts : posts[p].series_id = s}

LikesOnPostsOf(u) ==
  {r \in post_likes : r.post_id \in DOMAIN posts /\ posts[r.post_id].user_id = u}

\* C1: every post's likes_count equals the number of post_likes rows whose
\* post_id is that post, after any sequence of like inserts and deletes (and
\* post inserts, post deletes and profile creations) from the empty database.
C1_LikesCountMatchesRows ==
  \A p \in DOMAIN posts : posts[p].likes_count = Card(LikesOn(p))

\* C1 witness: one post liked by both users next to a post liked by one.
C1_Witness ==
  \E p \in DOMAIN posts, q \in DOMAIN posts :
    /\ p # q
    /\ posts[p].likes_count = 2 /\ Card(LikesOn(p)) = 2
    /\ posts[q].likes_count = 1 /\ Card(LikesOn(q)) = 1

\* C2: every creator_profiles.followers_count equals the number of follows
\* rows whose following_id is that profile's user_id, follows inserted before
\* the profile existed included.
C2_FollowersCountMatchesRows ==
  \A c \in DOMAIN creator_profiles :
    creator_profiles[c].followers_count = Card(FollowersOf(c))

\* C3: every creator_profiles.posts_count equals the number of posts rows the
\* user owns and every series.posts_count equals the number of posts rows in
\* that series, posts inserted before the profile existed included.
C3_PostsCountMatchesRows ==
  /\ \A c \in DOMAIN creator_profiles :
       creator_profiles[c].posts_count = Card(PostsOwnedBy(c))
  /\ \A s \in DOMAIN series : series[s].posts_count = Card(PostsIn(s))

\* C4: every creator_profiles.likes_count equals the number of post_likes rows
\* on the posts that creator owns, after like inserts, like deletes and post
\* deletions.
C4_CreatorLikesMatchRows ==
  \A c \in DOMAIN creator_profiles :
    creator_profiles[c].likes_count = Card(LikesOnPostsOf(c))

\* C5: no trigger-maintained counter is ever negative.
C5_CountersNonNegative ==
  /\ \A p \in DOMAIN posts :
       posts[p].likes_count >= 0 /\ posts[p].comments_count >= 0
  /\ \A s \in DOMAIN series : series[s].posts_count >= 0
  /\ \A c \in DOMAIN creator_profiles :
       /\ creator_profiles[c].likes_count >= 0
       /\ creator_profiles[c].followers_count >= 0
       /\ creator_profiles[c].posts_count >= 0
       /\ creator_profiles[c].series_count >= 0

\* C5 witness: a decrement met a counter that was already zero.
C5_Witness == clamped

LikeRows == [user_id : Users, post_id : PostIds]

\* one INSERT INTO post_likes of row r
LikeRowInserted(r) ==
  /\ r \notin post_likes
  /\ post_likes' = post_likes \cup {r}

\* one DELETE FROM post_likes of row r (the post stays: not a cascade)
LikeRowDeleted(r) ==
  /\ r \in post_likes
  /\ post_likes' = post_likes \ {r}
  /\ DOMAIN posts' = DOMAIN posts

OneUp(c) == c + 1

OneDownOrZero(c) == IF c > 0 THEN c - 1 ELSE 0

\* the tables after likes_count of post q and of q's owner's profile moved by f
LikeEffect(q, f(_)) ==
  /\ posts' = [p \in DOMAIN posts |->
                 IF p = q THEN [posts[p] EXCEPT !.likes_count = f(@)]
                 ELSE posts[p]]
  /\ creator_profiles' =
       [c \in DOMAIN creator_profiles |->
          IF c = posts[q].user_id
          THEN [creator_profiles[c] EXCEPT !.likes_count = f(@)]
          ELSE creator_profiles[c]]
  /\ series' = series

CardCountIsRead ==
  (card'.mounted /\ card.mounted /\ card'.likesCount # card.likesCount)
    => /\ card'.post \in DOMAIN posts'
       /\ card'.likesCount = posts'[card'.post].likes_count

\* setCreatorProfile gave the page a row that is the creator's row in the database
PageCountsAreRead ==
  (page'.mounted /\ page.mounted /\ page'.creatorProfile # page.creatorProfile)
    => /\ page'.creatorId \in DOMAIN creator_profiles'
       /\ page'.creatorProfile = creator_profiles'[page'.creatorId]

\* C7: counters are never computed by the client: every new likes count,
\* followers count, supporters count and earnings total a mounted component
\* takes is the value the database holds, not the result of local arithmetic.
C7_ClientCountersReadFromDb ==
  [][CardCountIsRead /\ PageCountsAreRead]_vars


\* the callback handled the oldest event of the queue
HandlerStep ==
  /\ mountPc = "subscribed" /\ mountPc' = "subscribed"
  /\ eventQueue # <<>>
  /\ eventQueue' = Tail(eventQueue)

\* C8: after each auth state change event is handled the context's session is
\* the event's session and user is that session's user (null when the event
\* has none); in every state, after signOut too, user is null exactly when
\* session is null.
C8_SessionMirrored ==
  /\ [](user = NoUser <=> session = NoSession)
  /\ [][HandlerStep =>
          /\ session' = Head(eventQueue).session
          /\ user' = Head(eventQueue).session.user]_vars

\* C8 witness: the context holds a session the provider issued after the
\* mount, with its user.
C8_Witness ==
  /\ session.tok >= 2
  /\ session = provSession
  /\ user = session.user
  /\ user \in Users

\* C9: handling an event that carries a session starts a load of that user's
\* profile row; handling an event without a session sets userProfile and
\* creatorProfile to null.
C9_EventStartsLoadOrClears ==
  [][HandlerStep =>
       LET s == Head(eventQueue).session
       IN IF s # NoSession
          THEN \E l \in loads' \ loads : l.userId = s.user /\ l.stage = "users"
          ELSE userProfile' = NoProfile /\ creatorProfile' = NoCreator]_vars

\* C9 witness: a second event with a session was handled and its load is in
\* flight while a profile loaded earlier is still in place.
C9_Witness ==
  /\ \E l \in loads : l.id = 2 /\ l.stage = "users" /\ l.userId = user
  /\ userProfile # NoProfile

\* C10: loading is true from the mount on, falls to false exactly when an
\* event is handled, whether or not a profile load is pending, and never
\* becomes true again.
C10_LoadingUntilFirstEvent ==
  /\ [](mountPc = "init" => loading)
  /\ [][HandlerStep => ~loading']_vars
  /\ [][loading' # loading => (HandlerStep /\ ~loading')]_vars

\* C10 witness: loading is false for a signed-in user whose profile load has
\* not returned.
C10_Witness ==
  /\ ~loading
  /\ user \in Users
  /\ userProfile = NoProfile
  /\ \E l \in loads : l.stage = "users" /\ l.userId = user


\* a step that is the ProtectedRoute's effect
RouteEffectStep == route.effectDue /\ ~route'.effectDue

\* C11: whenever ProtectedRoute shows its children, the auth context is not
\* loading (neither the value it rendered from nor the current one) and
\* requireAuth is false or the user it rendered from is not null
C11_ChildrenOnlyWhenAllowed ==
  route.output = "children" =>
    /\ ~route.loading
    /\ ~loading
    /\ ~RequireAuth(location.pathname) \/ route.user # NoUser

C11_Witness ==
  /\ route.output = "children"
  /\ RequireAuth(location.pathname)
  /\ route.user \in Users

\* C12: the effect navigates nowhere while loading is true; run with loading
\* false, requireAuth and no user it navigates to /login, replacing the
\* history entry and carrying the location it came from; and every state in
\* which loading is false and a requireAuth route has no user leads to
\* /login, unless a user signs in first or the application is unmounted
C12_RedirectsToLogin ==
  /\ [][(RouteEffectStep /\ loading) => location' = location]_vars
  /\ [][(RouteEffectStep /\ ~route.loading /\ RequireAuth(location.pathname)
          /\ route.user = NoUser)
        => location' = [pathname |-> "/login", from |-> location.pathname,
                        replace |-> TRUE]]_vars
  /\ (~loading /\ user = NoUser /\ RequireAuth(location.pathname))
       ~> (location.pathname = "/login" \/ user # NoUser \/ mountPc = "unmounted")

C12_Witness ==
  /\ location = [pathname |-> "/login", from |-> "/dashboard", replace |-> TRUE]
  /\ nextTok > 2
  /\ provSession = NoSession

\* the answers that read yes when case is ignored
ReadsYes(line) ==
  /\ Len(line) = 3
  /\ line[1] \in {"y", "Y"}
  /\ line[2] \in {"e", "E"}
  /\ line[3] \in {"s", "S"}

ListedPaths == {PathJoin(Cwd, itemsToRemove[i]) : i \in DOMAIN itemsToRemove}

\* C13: once the prompt is answered with anything that does not read yes,
\* the script has reported the cancellation and closed and removes nothing;
\* an answer that reads yes starts the cleanup; and every removal by the
\* script takes away exactly one of the six listed paths under the current
\* directory, with what it contains.
C13_RemovesOnlyWhenConfirmed ==
  /\ []((scriptPc \notin {"start", "prompt"} /\ ~ReadsYes(typed))
          => (scriptPc = "closed" /\ lastLog = "cancelled"))
  /\ []((scriptPc \notin {"start", "prompt"} /\ ReadsYes(typed))
          => lastLog # "cancelled")
  /\ [][(scriptPc # "start" /\ fs' # fs)
        => /\ ReadsYes(typed)
           /\ fs' \subseteq fs
           /\ \E p \in ListedPaths : fs \ fs' = {p} \cup Inside(p)]_vars

C13_Witness ==
  /\ typed = <<"Y", "e", "S">>
  /\ scriptPc = "closed"
  /\ lastLog = "complete"
  /\ removedCount = 4
  /\ PathJoin(OtherDir, "backend") \in fs

\* a step in which the page's callback handles an event carrying a session
SessionEventStep ==
  /\ cbQueue # <<>>
  /\ cbQueue' = Tail(cbQueue)
  /\ Head(cbQueue).event \in {"SIGNED_IN", "TOKEN_REFRESHED"}
  /\ Head(cbQueue).session # NoSession

\* a step in which a getSession poll returns the provider's session
SessionPollStep == polls' = polls - 1 /\ provSession # NoSession

\* C14: the callback page calls navigate('/') at most once, each such call is
\* made on handling a SIGNED_IN or TOKEN_REFRESHED event with a session or
\* on a poll that returned a session, and none is made once hasRedirected
\* is set.
C14_RedirectsHomeOnce ==
  /\ [](navHome <= 1)
  /\ [][navHome' # navHome
        => /\ navHome' = navHome + 1
           /\ SessionEventStep \/ SessionPollStep]_vars
  /\ [][hasRedirected => navHome' = navHome]_vars

\* C14 witness: after the redirect an event with a session and a poll are
\* still to be handled.
C14_Witness ==
  /\ navHome = 1
  /\ cbQueue # <<>>
  /\ Head(cbQueue).event = "TOKEN_REFRESHED"
  /\ polls > 0

\* the step in which the 10 s timeout fires
TimeoutStep == timeoutOn /\ ~timeoutOn' /\ cbPc' = cbPc

\* C15: a timeout that fires before any redirect sets status error with the
\* timed-out message, ends the subscription and the interval and sets the
\* timer that navigates to /login, which then happens; a timeout that fires
\* after the redirect changes nothing.
C15_TimeoutGivesUp ==
  /\ [][(TimeoutStep /\ ~hasRedirected)
        => /\ status' = "error"
           /\ cbError' = "timeout"
           /\ ~cbSubscribed'
           /\ ~intervalOn'
           /\ loginTimers' = loginTimers + 1]_vars
  /\ [][(TimeoutStep /\ hasRedirected)
        => UNCHANGED <<status, cbError, cbSubscribed, cbQueue, intervalOn,
                       loginTimers, navLogin>>]_vars
  /\ [](cbError = "timeout" => <>(navLogin > 0))

\* C15 witness: the timeout has fired with no session seen and the page has
\* been sent to /login.
C15_Witness ==
  /\ cbError = "timeout"
  /\ status = "error"
  /\ navLogin = 1
  /\ navHome = 0
  /\ ~cbSubscribed
  /\ ~intervalOn

\* C16: every getSession request is sent by the mount effect, none later on
\* a timer.
C16_NoRequestOnTimer == [][polls' > polls => cbPc = "init"]_vars

\* C17: once a single post was requested, singlePost is null or the post
\* requested last.
C17_NoStaleSinglePost ==
  requestedPostId # NULL => singlePost \in {NULL, requestedPostId}

\* the completed transactions of a creator
CompletedFor(c) ==
  {x \in supporter_transactions : x.creator_id = c /\ x.status = "completed"}

\* C18: every call of get_creator_stats returns as total_earnings the sum of
\* the amounts of the creator's completed transactions.
C18_EarningsAreCompletedSum ==
  [][(lastCall' # lastCall /\ lastCall'.fn = "get_creator_stats")
     => lastCall'.result.total_earnings =
          SUM(CompletedFor(lastCall'.creator),
              [x \in CompletedFor(lastCall'.creator) |-> x.amount])]_vars

\* a post the discovery feed is to show: published, not deleted, in a series
\* that exists and is not deleted
DiscoveryQualifies(p) ==
  /\ post_cols[p].is_published
  /\ post_cols[p].deleted_at = NULL
  /\ posts[p].series_id \in DOMAIN series
  /\ series_cols[posts[p].series_id].deleted_at = NULL

\* C19: a call of get_discovery_feed returns at most limit rows, each a
\* different qualifying post with its created_at, newest first; a qualifying
\* post is left out only when limit rows are returned and none of them is
\* older than it; user_has_liked and user_follows_creator tell whether the
\* caller's post_likes row and follows row exist.
C19_DiscoveryFeed ==
  [][(lastCall' # lastCall /\ lastCall'.fn = "get_discovery_feed")
     => LET rows == lastCall'.result
            u == lastCall'.user
            ids == {rows[i].post_id : i \in DOMAIN rows}
        IN /\ Len(rows) <= lastCall'.limit
           /\ Cardinality(ids) = Len(rows)
           /\ \A i \in DOMAIN rows :
                /\ rows[i].post_id \in DOMAIN posts
                /\ DiscoveryQualifies(rows[i].post_id)
                /\ rows[i].post_created_at = post_cols[rows[i].post_id].created_at
                /\ rows[i].user_has_liked
                     <=> [user_id |-> u, post_id |-> rows[i].post_id] \in post_likes
                /\ rows[i].user_follows_creator
                     <=> [follower_id |-> u,
                          following_id |-> posts[rows[i].post_id].user_id] \in follows
           /\ \A i, j \in DOMAIN rows :
                i < j => rows[i].post_created_at >= rows[j].post_created_at
           /\ \A q \in DOMAIN posts \ ids :
                DiscoveryQualifies(q)
                  => /\ Len(rows) = lastCall'.limit
                     /\ \A i \in DOMAIN rows :
                          post_cols[q].created_at <= rows[i].post_created_at]_vars

\* C19 witness: one row returned for limit 1, liked by the caller, while an
\* older qualifying post and a newer deleted one are left out.
C19_Witness ==
  /\ lastCall.fn = "get_discovery_feed"
  /\ lastCall.limit = 1
  /\ Len(lastCall.result) = 1
  /\ lastCall.result[1].user_has_liked
  /\ \E q \in DOMAIN posts :
       /\ q # lastCall.result[1].post_id
       /\ post_cols[q].is_published
       /\ posts[q].series_id \in DOMAIN series

\* a post the following feed is to show to u: published, not deleted, owned
\* by somebody u follows
UserFeedQualifies(u, p) ==
  /\ post_cols[p].is_published
  /\ post_cols[p].deleted_at = NULL
  /\ [follower_id |-> u, following_id |-> posts[p].user_id] \in follows

\* C20: a call of get_user_feed returns different qualifying posts, as many
\* as there are at positions offset to offset + limit - 1, and the row at
\* position i has fewer than offset + i qualifying posts newer than it and at
\* least offset + i that are not older.
C20_UserFeed ==
  [][(lastCall' # lastCall /\ lastCall'.fn = "get_user_feed")
     => LET rows == lastCall'.result
            u == lastCall'.user
            ids == {rows[i].post_id : i \in DOMAIN rows}
            all == {q \in DOMAIN posts : UserFeedQualifies(u, q)}
            rest == Cardinality(all) - lastCall'.offset
        IN /\ ids \subseteq all
           /\ Cardinality(ids) = Len(rows)
           /\ Len(rows) = IF rest < 0 THEN 0
                          ELSE IF rest < lastCall'.limit THEN rest
                          ELSE lastCall'.limit
           /\ \A i \in DOMAIN rows :
                /\ Cardinality({q \in all : post_cols[q].created_at
                                  > rows[i].post_created_at})
                     < lastCall'.offset + i
                /\ Cardinality({q \in all : post_cols[q].created_at
                                  >= rows[i].post_created_at})
                     >= lastCall'.offset + i]_vars

\* the writes a call of createCreatorProfile sent, oldest first
WritesOf(n) == SelectSeq(writes, LAMBDA w : w.call = n)

\* a step in which createCreatorProfile is called
CallStep == ccp'.n = ccp.n + 1

\* a step in which the UPDATE of users.role is answered with an error
RoleErrorStep ==
  /\ ccp.pc = "role"
  /\ Len(writes') >= Len(writes)
  /\ writes'[Len(writes)].answer = "error"

\* C21: createCreatorProfile first updates the user's role and sends the
\* creator_profiles insert only after that update was answered without an
\* error; when the update is answered with an error no insert is sent and
\* that error is returned; called with no user it sends neither write and
\* returns 'Not authenticated'.
C21_RoleBeforeProfile ==
  /\ [](\A n \in 1..ccp.n :
          LET w == WritesOf(n)
          IN /\ Len(w) <= 2
             /\ Len(w) >= 1 => w[1].stmt = "update users"
             /\ Len(w) = 2 => /\ w[2].stmt = "insert creator_profiles"
                              /\ w[1].answer = "no error")
  /\ [][RoleErrorStep =>
          /\ writes' = Answered(writes, "error")
          /\ ccp'.pc = "done"
          /\ ccp'.result = "role error"]_vars
  /\ [][(CallStep /\ user = NoUser) =>
          /\ writes' = writes
          /\ ccp'.pc = "done"
          /\ ccp'.result = "Not authenticated"]_vars
  /\ [](\A n \in 1..ccp.n :
          (WritesOf(n) # <<>> /\ WritesOf(n)[1].answer = "error")
            => Len(WritesOf(n)) = 1)

\* C21 witness: a first call returned the role update's error, and a second
\* call, whose update succeeded, sent its insert and returned no error.
C21_Witness ==
  /\ ccp.n = 2
  /\ ccp.result = "no error"
  /\ Len(WritesOf(1)) = 1
  /\ WritesOf(1)[1].answer = "error"
  /\ Len(WritesOf(2)) = 2
  /\ ccp.user \in DOMAIN creator_profiles

\* the requests a submission of the account form sent, oldest first
RequestsOf(n) == SelectSeq(authRequests, LAMBDA r : r.n = n)

\* a step in which signInWithPassword is answered with an error
SignInErrorStep ==
  /\ submission.pc = "sign in"
  /\ Len(authRequests') >= Len(authRequests)
  /\ authRequests'[Len(authRequests)].answer = "error"

\* C22: a submission of the account form sends the password update only
\* after its own sign-in with the current password was answered without an
\* error; when that sign-in is answered with an error, no password update is
\* sent, the currentPassword field is marked and an error message is shown.
C22_PasswordAfterSignIn ==
  /\ [](\A i \in DOMAIN authRequests :
          authRequests[i].kind = "updateUser password"
            => /\ i > 1
               /\ authRequests[i - 1].n = authRequests[i].n
               /\ authRequests[i - 1].kind = "signInWithPassword"
               /\ authRequests[i - 1].answer = "no error")
  /\ [][SignInErrorStep =>
          /\ authRequests' = Answered(authRequests, "error")
          /\ form'.currentPassword
          /\ form'.errorMessage = "sign-in error"
          /\ ~form'.isLoading
          /\ submission'.pc = "idle"]_vars
  /\ [](\A n \in 1..submission.n :
          (\E i \in DOMAIN authRequests :
             /\ authRequests[i].n = n
             /\ authRequests[i].kind = "signInWithPassword"
             /\ authRequests[i].answer = "error")
            => \A j \in DOMAIN authRequests :
                 authRequests[j].n = n => authRequests[j].kind # "updateUser password")

\* C22 witness: a first submission signed in and updated the password; in
\* the second the sign-in failed: the field is marked, the message is shown
\* and the second submission sent no password update.
C22_Witness ==
  /\ submission.n = 2
  /\ submission.pc = "idle"
  /\ \E i \in DOMAIN RequestsOf(1) : RequestsOf(1)[i].kind = "updateUser password"
  /\ RequestsOf(2) # <<>>
  /\ RequestsOf(2)[Len(RequestsOf(2))] =
       [n |-> 2, kind |-> "signInWithPassword", answer |-> "error"]
  /\ form.currentPassword
  /\ form.errorMessage = "sign-in error"

\* a step in which a query of loadUserProfile is answered
AnswerStep == answered' # answered

\* the load that query belonged to has ended
LoadOver(l) == \A k \in loads' : k.id # l.id

\* C23: when the users query of loadUserProfile returns an error or throws,
\* userProfile and creatorProfile are both null afterwards; the
\* creator_profiles query is sent only when the row loaded has the role
\* 'creator' or 'admin', and for any other role creatorProfile is set to null;
\* a creator_profiles error keeps userProfile as it is and sets
\* creatorProfile to null.
C23_LoadUserProfileErrors ==
  /\ [][AnswerStep =>
          LET a == answered'
          IN /\ (a.query = "users" /\ a.result \in {"error", "throws"})
                  => /\ userProfile' = NoProfile
                     /\ creatorProfile' = NoCreator
                     /\ LoadOver(a.load)
             /\ (a.query = "users" /\ a.result \in Roles \ {"creator", "admin"})
                  => /\ userProfile' = [id |-> a.load.userId, role |-> a.result]
                     /\ creatorProfile' = NoCreator
                     /\ LoadOver(a.load)
             /\ (a.query = "users" /\ a.result \in {"creator", "admin"})
                  => /\ userProfile' = [id |-> a.load.userId, role |-> a.result]
                     /\ [a.load EXCEPT !.stage = "creator"] \in loads'
             /\ (a.query = "creator_profiles" /\ a.result = "error")
                  => /\ userProfile' = userProfile
                     /\ creatorProfile' = NoCreator]_vars
  /\ [][\A l \in loads' \ loads :
          l.stage = "creator"
            => /\ answered' # answered
               /\ answered'.query = "users"
               /\ answered'.load.id = l.id
               /\ answered'.result \in {"creator", "admin"}]_vars

\* C23 witness: the creator_profiles query of a creator's load returned an
\* error: the row loaded from users is in place and creatorProfile is null.
C23_Witness ==
  /\ answered.query = "creator_profiles"
  /\ answered.result = "error"
  /\ userProfile = [id |-> answered.load.userId, role |-> "creator"]
  /\ creatorProfile = NoCreator

\* C24: in every reachable state of the auth context a loaded userProfile
\* implies a signed-in user, whatever the interleaving of auth events,
\* signOut and profile loads in flight.
C24_ProfileImpliesUser == userProfile # NoProfile => user # NoUser

=========================================================================
